---- MODULE Spec2Model ----
(***************************************************************************)
(* Model of the incremental deduplication and caching pipeline of          *)
(* reliable_news_db: the window loader (reliable_db/utils.py), the dedup   *)
(* index builders and the stage loops of the collect, download and         *)
(* summarize scripts (code/collect/00x_*.py).                              *)
(*                                                                         *)
(* The file system is the program's state: every directory is a function   *)
(* from file names to the sequence of lines of the file.  A dated file     *)
(* name "YYYY_MM_DD__suffix" is modelled by the sequence <<d>> of its day  *)
(* number: the date prefix is zero padded, so the lexicographic order of   *)
(* the names is the order of the days.                                     *)
(***************************************************************************)
EXTENDS Integers, Sequences, FiniteSets, TLC

VARIABLES
    fs,        \* the directories: directory path -> (file name -> lines)
    today,     \* datetime.date.today(), as a day number
    pc,        \* position of the running script ("idle" when none runs)
    run,       \* the locals of the running stage function
    hist,      \* what the runs did (observation only, never read by the code)
    call,      \* the pure function applied last, with its arguments
    ret        \* and what it returned

vars == <<fs, today, pc, run, hist, call, ret>>

-----------------------------------------------------------------------------
(* Python values *)

PyNone == [t |-> "NoneType"]
PyInt(n) == [t |-> "int", v |-> n]
PyBool(b) == [t |-> "bool", v |-> b]
PyStr(s) == [t |-> "str", v |-> s]
PySet(S) == [t |-> "set", v |-> S]
PyList(s) == [t |-> "list", v |-> s]

\* The outcome of a call: a returned value or a raised exception.
Return(v) == [exc |-> "none", val |-> v]
Raise(e) == [exc |-> e]
Raised(r) == r.exc # "none"

\* isinstance(x, int): bool is a subclass of int.
IsInt(x) == x.t \in {"int", "bool"}
IntOf(x) == IF x.t = "bool" THEN (IF x.v THEN 1 ELSE 0) ELSE x.v

-----------------------------------------------------------------------------
(* Strings are sequences of characters; file names sequences of codes. *)

NL == "\n"
Whitespace == {" ", NL}

\* str.rstrip(): drop the trailing whitespace characters.
RECURSIVE rstrip(_)
rstrip(s) ==
    IF s = <<>> THEN <<>>
    ELSE IF s[Len(s)] \in Whitespace THEN rstrip(SubSeq(s, 1, Len(s) - 1))
    ELSE s

\* str(x) inside an f-string.
NoneText == <<"N", "o", "n", "e">>
str(x) == IF x.t = "NoneType" THEN NoneText ELSE x.v

\* a < b for two Python strings (sequences of character codes).
LexLess(a, b) ==
    \/ /\ Len(a) < Len(b)
       /\ \A i \in 1..Len(a) : a[i] = b[i]
    \/ \E i \in 1..Len(a) :
          /\ i <= Len(b)
          /\ a[i] < b[i]
          /\ \A j \in 1..(i - 1) : a[j] = b[j]

\* sorted(S, reverse=True)
RECURSIVE SortedReverse(_)
SortedReverse(S) ==
    IF S = {} THEN <<>>
    ELSE LET m == CHOOSE x \in S : \A y \in S : y = x \/ LexLess(y, x)
         IN  <<m>> \o SortedReverse(S \ {m})

-----------------------------------------------------------------------------
(* Directories and program constants of the three stage scripts.  The      *)
(* scripts reuse the names SERP_CLEAN_DIR, DOWNLOADED_LINKS_DIR and        *)
(* NUM_DAYS; the suffix names the script (000 collect, 001 download, 002   *)
(* summarize).                                                             *)

SERP_RAW_DIR == "../../../raw_data/article_data/serp_raw"
SERP_CLEAN_DIR_000 == "../../../raw_data/article_data/serp_clean"
SERP_CLEAN_DIR_001 == "../../data/article_data/serp_clean"
DOWNLOADED_LINKS_DIR_001 == "../../data/article_data/downloaded_links"
ARTICLE_RECORDS_DIR == "../../data/article_data/article_results"
SUMMARIES_DIR == "../../data/article_data/article_results_summarized"
DOWNLOADED_LINKS_DIR_002 == "../../data/article_data/summarized_links"

Dirs ==
    {SERP_RAW_DIR, SERP_CLEAN_DIR_000, SERP_CLEAN_DIR_001,
     DOWNLOADED_LINKS_DIR_001, ARTICLE_RECORDS_DIR, SUMMARIES_DIR,
     DOWNLOADED_LINKS_DIR_002}

NUM_DAYS_000 == 14
NUM_DAYS_001 == 4
NUM_DAYS_002 == 14

-----------------------------------------------------------------------------
(* The file system *)

EmptyDir == [n \in {} |-> <<>>]
EmptyFs == [d \in Dirs |-> EmptyDir]

\* f"{today_str}__{FILE}": the dated file name of day d.
DatedName(d) == <<d>>

\* os.path.join(path, file)
PathJoin(path, file) == <<path, file>>

\* The lines of the file at a full path, in file order.
ReadLines(f, fp) == f[fp[1]][fp[2]]

\* Mutant of AppendLine: the file opened with "w", so that the line written
\* replaces what the file held.
AppendLine_truncating(f, fp, line) ==
    LET dir == f[fp[1]]
    IN  [f EXCEPT ![fp[1]] =
            [n \in (DOMAIN dir) \cup {fp[2]} |->
                IF n = fp[2] THEN <<line>> ELSE dir[n]]]

\* open(fp, "a") followed by write(line): the file is created when absent.
AppendLine(f, fp, line) ==
    LET dir == f[fp[1]]
        old == IF fp[2] \in DOMAIN dir THEN dir[fp[2]] ELSE <<>>
    IN  [f EXCEPT ![fp[1]] =
            [n \in (DOMAIN dir) \cup {fp[2]} |->
                IF n = fp[2] THEN Append(old, line) ELSE dir[n]]]

\* open(fp, "a") alone: creates the file when absent, changes nothing else.
OpenAppend(f, fp) ==
    LET dir == f[fp[1]]
    IN  IF fp[2] \in DOMAIN dir THEN f
        ELSE [f EXCEPT ![fp[1]] =
                [n \in (DOMAIN dir) \cup {fp[2]} |->
                    IF n = fp[2] THEN <<>> ELSE dir[n]]]

\* A line of a JSON-lines file: the text json.dumps wrote for a dict, or
\* text that is no JSON document (the partial line of a killed append).
json_dumps(obj) == [text |-> "json", obj |-> obj]
MalformedLine == [text |-> "malformed"]
json_loads(line) ==
    IF line.text = "json" THEN Return(line.obj) ELSE Raise("JSONDecodeError")

\* A line of a text file is a sequence of characters ending in NL.  A line
\* holding BadByte cannot be decoded: reading it raises UnicodeDecodeError.
BadByte == "<bad>"
Decodable(line) == \A i \in 1..Len(line) : line[i] # BadByte

-----------------------------------------------------------------------------
(* reliable_db/utils.py *)

\* Binding of a call collect_last_x_files(*pos, **kw) to the signature
\* (path, num_paths=None, all=None): Python raises TypeError for a keyword
\* the signature does not have, for an argument given twice, for too many
\* positional arguments and for a missing path.
SigParams == <<"path", "num_paths", "all">>
Bind(pos, kw) ==
    IF \/ Len(pos) > Len(SigParams)
       \/ \E k \in DOMAIN kw : \A i \in 1..Len(SigParams) : SigParams[i] # k
       \/ \E i \in 1..Len(pos) : SigParams[i] \in DOMAIN kw
       \/ (Len(pos) = 0 /\ "path" \notin DOMAIN kw)
    THEN Raise("TypeError")
    ELSE Return([i \in 1..Len(SigParams) |->
                    IF i <= Len(pos) THEN pos[i]
                    ELSE IF SigParams[i] \in DOMAIN kw THEN kw[SigParams[i]]
                    ELSE PyNone])

\* sorted(S) without reverse=True
RECURSIVE SortedAscending(_)
SortedAscending(S) ==
    IF S = {} THEN <<>>
    ELSE LET m == CHOOSE x \in S : \A y \in S : y = x \/ LexLess(x, y)
         IN  <<m>> \o SortedAscending(S \ {m})

\* Mutant of collect_last_x_files: the listing sorted in ascending order, so
\* that the window holds the oldest files.
collect_last_x_files_ascending(f, path, num_paths, all) ==
    IF path.t # "str" THEN Raise("TypeError")
    ELSE IF all.t # "bool" THEN Raise("TypeError")
    ELSE IF all.v /\ num_paths.t # "NoneType" THEN Raise("TypeError")
    ELSE IF ~all.v /\ ~IsInt(num_paths) THEN Raise("TypeError")
    ELSE IF num_paths.t # "NoneType" /\ IntOf(num_paths) <= 0
         THEN Raise("ValueError")
    ELSE IF path.v \notin DOMAIN f THEN Raise("FileNotFoundError")
    ELSE LET files == SortedAscending(DOMAIN f[path.v])
             n == IF all.v \/ IntOf(num_paths) > Len(files)
                  THEN Len(files) ELSE IntOf(num_paths)
         IN  Return([i \in 1..n |-> PathJoin(path.v, files[i])])

\* Mutant of collect_last_x_files: the test of lines 50-51 left out, so that
\* a window size of zero or less cuts an empty slice.
collect_last_x_files_unchecked(f, path, num_paths, all) ==
    IF path.t # "str" THEN Raise("TypeError")
    ELSE IF all.t # "bool" THEN Raise("TypeError")
    ELSE IF all.v /\ num_paths.t # "NoneType" THEN Raise("TypeError")
    ELSE IF ~all.v /\ ~IsInt(num_paths) THEN Raise("TypeError")
    ELSE IF path.v \notin DOMAIN f THEN Raise("FileNotFoundError")
    ELSE LET files == SortedReverse(DOMAIN f[path.v])
             n == IF all.v \/ IntOf(num_paths) > Len(files)
                  THEN Len(files) ELSE IntOf(num_paths)
         IN  Return([i \in 1..n |-> PathJoin(path.v, files[i])])

\* collect_last_x_files(path, num_paths, all) on the file system f.
collect_last_x_files(f, path, num_paths, all) ==
    IF path.t # "str" THEN Raise("TypeError")
    ELSE IF all.t # "bool" THEN Raise("TypeError")
    ELSE IF all.v /\ num_paths.t # "NoneType" THEN Raise("TypeError")
    ELSE IF ~all.v /\ ~IsInt(num_paths) THEN Raise("TypeError")
    ELSE IF num_paths.t # "NoneType" /\ IntOf(num_paths) <= 0
         THEN Raise("ValueError")
    ELSE IF path.v \notin DOMAIN f THEN Raise("FileNotFoundError")
    ELSE LET files == SortedReverse(DOMAIN f[path.v])
             n == IF all.v \/ IntOf(num_paths) > Len(files)
                  THEN Len(files) ELSE IntOf(num_paths)
         IN  Return([i \in 1..n |-> PathJoin(path.v, files[i])])

\* A call as the scripts write it: bind, then run the body.
CallCollectLastXFiles(f, pos, kw) ==
    LET b == Bind(pos, kw)
    IN  IF Raised(b) THEN b
        ELSE collect_last_x_files(f, b.val[1], b.val[2], b.val[3])

-----------------------------------------------------------------------------
(* The dedup index builders and the work-queue reader *)

\* for file in files: for line in f: ...   -- every line, in reading order.
RECURSIVE ReadAll(_, _)
ReadAll(f, files) ==
    IF files = <<>> THEN <<>>
    ELSE ReadLines(f, Head(files)) \o ReadAll(f, Tail(files))

\* 000: the loop of build_existing_links_set over the lines still to read.
RECURSIVE AddRecordLinks(_, _)
AddRecordLinks(lines, urls) ==
    IF lines = <<>> THEN Return(urls)
    ELSE LET record == json_loads(Head(lines))
         IN  IF Raised(record) THEN record
             ELSE IF "link" \notin DOMAIN record.val THEN Raise("KeyError")
             ELSE AddRecordLinks(Tail(lines), urls \cup {record.val.link})

\* Mutant of build_existing_links_set: `return urls` inside the loop over
\* the files, so that only the first file of the window is read.
build_existing_links_set_first_file(f, files) ==
    LET r == AddRecordLinks(
                 IF files = <<>> THEN <<>> ELSE ReadLines(f, Head(files)), {})
    IN  IF Raised(r) THEN PyNone ELSE PySet(r.val)

\* Mutant of build_existing_links_set: `return urls or None`, so that an
\* empty index is handed back as None.
build_existing_links_set_none_when_empty(f, files) ==
    LET r == AddRecordLinks(ReadAll(f, files), {})
    IN  IF Raised(r) \/ r.val = {} THEN PyNone ELSE PySet(r.val)

\* 000: build_existing_links_set(files).  The except branch prints and
\* falls off the end of the function: the caller receives None.
build_existing_links_set(f, files) ==
    LET r == AddRecordLinks(ReadAll(f, files), {})
    IN  IF Raised(r) THEN PyNone ELSE PySet(r.val)

\* 001, 002: the loop of load_downloaded_links over the lines still to read.
RECURSIVE AddTextLinks(_, _)
AddTextLinks(lines, urls) ==
    IF lines = <<>> THEN Return(urls)
    ELSE IF ~Decodable(Head(lines)) THEN Raise("UnicodeDecodeError")
    ELSE AddTextLinks(Tail(lines), urls \cup {PyStr(rstrip(Head(lines)))})

\* 001, 002: load_downloaded_links(files) (the two scripts hold the same
\* text).  The except branch returns an empty set.
load_downloaded_links(f, files) ==
    LET r == AddTextLinks(ReadAll(f, files), {})
    IN  IF Raised(r) THEN PySet({}) ELSE PySet(r.val)

\* [json.loads(line) for line in f]
RECURSIVE LoadsAll(_)
LoadsAll(lines) ==
    IF lines = <<>> THEN Return(<<>>)
    ELSE LET h == json_loads(Head(lines))
         IN  IF Raised(h) THEN h
             ELSE LET t == LoadsAll(Tail(lines))
                  IN  IF Raised(t) THEN t ELSE Return(<<h.val>> \o t.val)

\* 001, 002: load_article_records(path).  The except branch returns [].
load_article_records(f, path) ==
    LET r == LoadsAll(ReadLines(f, path))
    IN  IF Raised(r) THEN <<>> ELSE r.val

-----------------------------------------------------------------------------
(* Values the model draws its inputs from *)

\* Article links: two URLs, and None, which SerpGnewsArticle.link returns
\* for a result that carries no "link".
LinkA == PyStr(<<"a">>)
LinkB == PyStr(<<"b">>)
LinkC == PyStr(<<"c">>)
Links == {LinkA, LinkB, LinkC, PyNone}

\* All sequences over S of length at most n.
RECURSIVE SeqsUpTo(_, _)
SeqsUpTo(S, n) ==
    IF n = 0 THEN {<<>>}
    ELSE LET shorter == SeqsUpTo(S, n - 1)
         IN  shorter \cup
             {Append(q, x) : q \in {p \in shorter : Len(p) = n - 1}, x \in S}

\* All directories holding at most n files named in Names with contents in
\* Contents.
DirsOver(Names, Contents, n) ==
    UNION {[S -> Contents] : S \in {T \in SUBSET Names : Cardinality(T) <= n}}

NoCall == [fn |-> "none"]
NoRet == [exc |-> "none", val |-> <<>>]
NoRun == [stage |-> "none"]

\* hist: the number of runs started, and for the current (or last) run and
\* the one before it: the stage, the file system when it started, what it
\* did, and how it ended.
NoRec == [stage |-> "none"]
NoHist == [runs |-> 0, prev |-> NoRec, cur |-> NoRec]
StartRec(stage, input) ==
    [stage |-> stage, fs0 |-> fs, day |-> today, input |-> input,
     events |-> <<>>, done |-> FALSE, exc |-> "none"]
Started(h, rec) == [runs |-> h.runs + 1, prev |-> h.cur, cur |-> rec]
Logged(h, evs, finished, exc) ==
    [h EXCEPT !.cur.events = h.cur.events \o evs,
              !.cur.done = finished,
              !.cur.exc = exc]

-----------------------------------------------------------------------------
(* SpecFn: the window loader and the index builder applied to drawn        *)
(* directories.                                                            *)

MaxFnFiles == 3
MaxFnLines == 2
MaxFnK == 3

\* File names whose order exercises prefixes and several characters.
FnNames == {<<1>>, <<1, 1>>, <<1, 2>>, <<2>>, <<2, 1>>}

\* A clean record as the collect stage writes it, a JSON object without
\* "link", and a partial line.
FnJsonLines ==
    {json_dumps([link |-> LinkA, domain |-> "d1", pub_token |-> "T1"]),
     json_dumps([link |-> LinkB, domain |-> "d1", pub_token |-> "T1"]),
     json_dumps([domain |-> "d1", pub_token |-> "T1"]),
     MalformedLine}

FnNumPaths == {PyNone} \cup {PyInt(k) : k \in (-1)..MaxFnK}
FnAlls == {PyNone, PyBool(TRUE), PyBool(FALSE)}

InitFnNames ==
    \E d \in DirsOver(FnNames, {<<>>}, MaxFnFiles) :
        fs = [EmptyFs EXCEPT ![SERP_CLEAN_DIR_000] = d]

InitFnJson ==
    \E d \in DirsOver({DatedName(1), DatedName(2)},
                      SeqsUpTo(FnJsonLines, MaxFnLines), 2) :
        fs = [EmptyFs EXCEPT ![SERP_CLEAN_DIR_000] = d]

\* Lines of a link-cache file: two links, and a line that cannot be decoded.
FnTextLines == {<<"a", NL>>, <<"b", NL>>, <<BadByte, NL>>}

InitFnText ==
    \E d \in DirsOver({DatedName(1), DatedName(2)},
                      SeqsUpTo(FnTextLines, MaxFnLines), 2) :
        fs = [EmptyFs EXCEPT ![DOWNLOADED_LINKS_DIR_001] = d]

InitFnRecords ==
    \E d \in DirsOver({DatedName(1)}, SeqsUpTo(FnJsonLines, MaxFnLines), 1) :
        fs = [EmptyFs EXCEPT ![SERP_CLEAN_DIR_001] = d]

InitFn ==
    /\ InitFnNames \/ InitFnJson \/ InitFnText \/ InitFnRecords
    /\ today = 0
    /\ pc = "fn"
    /\ run = NoRun
    /\ hist = NoHist
    /\ call = NoCall
    /\ ret = NoRet

FnCollectLastXFiles ==
    /\ pc = "fn"
    /\ \E np \in FnNumPaths, al \in FnAlls :
        /\ call' = [fn |-> "collect_last_x_files", num_paths |-> np, all |-> al]
        /\ ret' = collect_last_x_files(fs, PyStr(SERP_CLEAN_DIR_000), np, al)
    /\ UNCHANGED <<fs, today, pc, run, hist>>

FnBuildExistingLinksSet ==
    /\ pc = "fn"
    /\ \E k \in 1..MaxFnK :
        LET files == collect_last_x_files(fs, PyStr(SERP_CLEAN_DIR_000),
                                          PyInt(k), PyBool(FALSE)).val
        IN  /\ call' = [fn |-> "build_existing_links_set", files |-> files]
            /\ ret' = build_existing_links_set(fs, files)
    /\ UNCHANGED <<fs, today, pc, run, hist>>

FnLoadDownloadedLinks ==
    /\ pc = "fn"
    /\ \E k \in 1..MaxFnK :
        LET files == collect_last_x_files(fs, PyStr(DOWNLOADED_LINKS_DIR_001),
                                          PyInt(k), PyBool(FALSE)).val
        IN  /\ call' = [fn |-> "load_downloaded_links", k |-> k,
                        files |-> files]
            /\ ret' = load_downloaded_links(fs, files)
    /\ UNCHANGED <<fs, today, pc, run, hist>>

FnLoadArticleRecords ==
    /\ pc = "fn"
    /\ \E n \in DOMAIN fs[SERP_CLEAN_DIR_001] :
        LET path == PathJoin(SERP_CLEAN_DIR_001, n)
        IN  /\ call' = [fn |-> "load_article_records", path |-> path]
            /\ ret' = PyList(load_article_records(fs, path))
    /\ UNCHANGED <<fs, today, pc, run, hist>>

NextFn ==
    \/ FnCollectLastXFiles
    \/ FnBuildExistingLinksSet
    \/ FnLoadDownloadedLinks
    \/ FnLoadArticleRecords

SpecFn == InitFn /\ [][NextFn]_vars

-----------------------------------------------------------------------------
(* Claims about the window loader and the index builder (SpecFn) *)

FnDirNames == DOMAIN fs[SERP_CLEAN_DIR_000]
Min(a, b) == IF a < b THEN a ELSE b

\* The call is collect_last_x_files(path, k, all=False) with an integer k > 0.
FnWindowCall ==
    /\ call.fn = "collect_last_x_files"
    /\ call.all = PyBool(FALSE)
    /\ call.num_paths.t = "int"
    /\ call.num_paths.v > 0

ValidLinks(lines) ==
    {lines[i].obj.link :
        i \in {j \in 1..Len(lines) :
                /\ lines[j].text = "json"
                /\ "link" \in DOMAIN lines[j].obj}}

\* C10: when the window files hold a line that is not valid JSON or has no
\* "link" among valid lines, build_existing_links_set returns the set of the
\* links of all valid lines: a set, not an error and not an absent value.
C10_CorruptedLineResilience ==
    call.fn = "build_existing_links_set" =>
        /\ ret.t = "set"
        /\ ret.v = ValidLinks(ReadAll(fs, call.files))

\* The files of a window that are read without error, and their keys.
ReadableFiles(f, files) ==
    {i \in 1..Len(files) :
        \A j \in 1..Len(ReadLines(f, files[i])) :
            Decodable(ReadLines(f, files[i])[j])}
KeysOfFile(f, fp) ==
    {PyStr(rstrip(ReadLines(f, fp)[j])) : j \in 1..Len(ReadLines(f, fp))}

\* C11: when reading one file of the link-cache window fails, the key set
\* load_downloaded_links returns still contains every key of the files of
\* the window that are read without error.
C11_ReadableFilesKept ==
    call.fn = "load_downloaded_links" =>
        \A i \in ReadableFiles(fs, call.files) :
            KeysOfFile(fs, call.files[i]) \subseteq ret.v

\* The keys that occur in a link-cache file: its lines that can be decoded,
\* without the line end.
KeysIn(f, fp) ==
    {PyStr(rstrip(ReadLines(f, fp)[j])) :
        j \in {i \in 1..Len(ReadLines(f, fp)) : Decodable(ReadLines(f, fp)[i])}}

\* C15: window membership decides "seen": a key is in the key cache built
\* at the start of a stage run exactly when it occurs in one of the K
\* lexicographically largest files of the cache directory; a key that
\* occurs only in older files is not in the cache.
C15_WindowDecidesSeen ==
    call.fn = "load_downloaded_links" =>
        LET window == collect_last_x_files(fs, PyStr(DOWNLOADED_LINKS_DIR_001),
                                           PyInt(call.k), PyBool(FALSE)).val
        IN  /\ ret.t = "set"
            /\ ret.v = UNION {KeysIn(fs, window[i]) : i \in 1..Len(window)}

\* C13: when the last line of an upstream record file is malformed and the
\* lines before it are well formed, load_article_records returns the
\* records of the lines before it.
C13_TrailingPartialLine ==
    (/\ call.fn = "load_article_records"
     /\ ReadLines(fs, call.path) # <<>>) =>
        LET lines == ReadLines(fs, call.path)
            n == Len(lines)
        IN  (/\ lines[n] = MalformedLine
             /\ \A i \in 1..(n - 1) : lines[i].text = "json") =>
                ret = PyList([i \in 1..(n - 1) |-> lines[i].obj])

\* The call is collect_last_x_files(path, num_paths, all) with an integer
\* num_paths <= 0, whatever `all` is.
FnNonPositiveCall ==
    /\ call.fn = "collect_last_x_files"
    /\ IsInt(call.num_paths)
    /\ IntOf(call.num_paths) <= 0

\* C23: collect_last_x_files rejects a window size k <= 0: for every
\* directory content and every value of `all`, a call with num_paths <= 0
\* raises an error and never returns a list (in particular never an empty
\* list).
C23_NonPositiveRejected == FnNonPositiveCall => Raised(ret)

\* C23 witness: num_paths = 0 with all=False on a directory that holds
\* files: the call reaches the test of line 50 and raises ValueError.
C23_Witness ==
    /\ FnNonPositiveCall
    /\ call.num_paths = PyInt(0)
    /\ call.all = PyBool(FALSE)
    /\ FnDirNames # {}
    /\ ret = Raise("ValueError")

\* The call is collect_last_x_files on a directory without files, with a
\* valid k > 0 (all=False) or with all=True.
FnEmptyDirCall ==
    /\ call.fn = "collect_last_x_files"
    /\ FnDirNames = {}
    /\ \/ FnWindowCall
       \/ call.all = PyBool(TRUE) /\ call.num_paths = PyNone

\* C24: empty window: for an existing directory with zero files,
\* collect_last_x_files returns an empty list without raising, for every
\* valid k > 0 and for all=True; and the dedup index builders applied to an
\* empty list of files return an empty set.
C24_EmptyWindow ==
    /\ FnEmptyDirCall => ret = Return(<<>>)
    /\ (/\ call.fn \in {"build_existing_links_set", "load_downloaded_links"}
        /\ call.files = <<>>) => ret = PySet({})

\* C24 witness: the window of an empty clean directory handed to
\* build_existing_links_set, which returned the empty set.
C24_Witness ==
    /\ call.fn = "build_existing_links_set"
    /\ FnDirNames = {}
    /\ call.files = <<>>
    /\ ret = PySet({})

\* The date prefix of a file name: its first code.
DatePrefix(name) == name[1]

\* C29: ties on date: when two files of a directory carry the same date
\* prefix and collect_last_x_files selects one of them into the window, it
\* also selects the other, for every k > 0.
C29_TiesBothIncluded ==
    (FnWindowCall /\ ~Raised(ret)) =>
        LET selected == {ret.val[i][2] : i \in 1..Len(ret.val)}
        IN  \A x \in selected : \A y \in FnDirNames :
                DatePrefix(x) = DatePrefix(y) => y \in selected

-----------------------------------------------------------------------------
(* SpecWait: random_wait (reliable_db/utils.py) applied to drawn arguments *)

MaxFnWait == 2
Resolution == 2

\* A float, in units of 1/Resolution; durations are counted in these units.
PyFloat(n) == [t |-> "float", v |-> n]

\* random.uniform(a, b): a + (b - a) * random(), a number between the two
\* arguments, whichever is the larger.
UniformDraws(a, b) ==
    IF a <= b THEN (Resolution * a)..(Resolution * b)
    ELSE (Resolution * b)..(Resolution * a)

\* time.sleep(secs): raises ValueError for a negative length, blocks for
\* secs otherwise.  `slept` holds the durations the call blocked for.
time_sleep(secs) ==
    IF secs < 0 THEN [exc |-> "ValueError", slept |-> <<>>]
    ELSE [exc |-> "none", val |-> PyNone, slept |-> <<secs>>]

\* Mutant of random_wait: the base offset left out of wait_time.
random_wait_no_offset(min, max) ==
    IF ~(IsInt(min) /\ IsInt(max))
    THEN {[exc |-> "ValueError", slept |-> <<>>]}
    ELSE {time_sleep(u) : u \in UniformDraws(IntOf(min), IntOf(max))}

\* random_wait(min, max): the outcomes of a call.
random_wait(min, max) ==
    IF ~(IsInt(min) /\ IsInt(max))
    THEN {[exc |-> "ValueError", slept |-> <<>>]}
    ELSE {time_sleep(Resolution * 1 + u) :
            u \in UniformDraws(IntOf(min), IntOf(max))}

\* Arguments: integers around zero, a bool (an int for isinstance), and
\* values that are no integers.
FnWaitArgs ==
    {PyInt(k) : k \in (-MaxFnWait)..MaxFnWait}
        \cup {PyBool(TRUE), PyNone, PyFloat(Resolution + 1), PyStr(<<"1">>)}

InitWait ==
    /\ fs = EmptyFs
    /\ today = 0
    /\ pc = "fn"
    /\ run = NoRun
    /\ hist = NoHist
    /\ call = NoCall
    /\ ret = NoRet

\* random_wait(min, max) with drawn arguments.
WaitDrawn ==
    /\ pc = "fn"
    /\ \E min \in FnWaitArgs, max \in FnWaitArgs :
        /\ call' = [fn |-> "random_wait", min |-> min, max |-> max]
        /\ ret' \in random_wait(min, max)
    /\ UNCHANGED <<fs, today, pc, run, hist>>

\* random_wait() as the stage loops call it: min=1, max=5.
WaitDefault ==
    /\ pc = "fn"
    /\ call' = [fn |-> "random_wait", min |-> PyInt(1), max |-> PyInt(5)]
    /\ ret' \in random_wait(PyInt(1), PyInt(5))
    /\ UNCHANGED <<fs, today, pc, run, hist>>

NextWait == WaitDrawn \/ WaitDefault

SpecWait == InitWait /\ [][NextWait]_vars

\* The call is random_wait(min, max) with integers min <= max.
WaitIntegerCall ==
    /\ call.fn = "random_wait"
    /\ IsInt(call.min) /\ IsInt(call.max)
    /\ IntOf(call.min) <= IntOf(call.max)

\* The call blocked once, for min + 1 <= d <= max + 1.
SleptInRange ==
    /\ ret.exc = "none"
    /\ Len(ret.slept) = 1
    /\ Resolution * (IntOf(call.min) + 1) <= ret.slept[1]
    /\ ret.slept[1] <= Resolution * (IntOf(call.max) + 1)

\* The call raised ValueError without sleeping.
RaisedUnslept == ret.exc = "ValueError" /\ ret.slept = <<>>

-----------------------------------------------------------------------------
(* 000_collect_serp_results.py: the collect stage *)

MaxRuns == 2
MaxTicks == 1

FirstDay == NUM_DAYS_000 + 1
LastDay == FirstDay + MaxTicks

\* The calendar day changes between two runs (a run reads the date once).
NextDay ==
    /\ pc = "idle"
    /\ today < LastDay
    /\ today' = today + 1
    /\ UNCHANGED <<fs, pc, run, hist, call, ret>>

\* pd.read_csv(DOMAINS_PATH): the domain table, index 0, 1, ...
quality_domains_df ==
    <<[domain |-> "d1", gnews_pub_token |-> "T1"],
      [domain |-> "d2", gnews_pub_token |-> "T2"]>>

\* What fetch_serp_data does: it raises, or returns the response dict, with
\* or without "news_results".  A result is a dict with a "link"; the last
\* response holds an item that is not a dict (a JSON null).
FetchOutcomes ==
    {Raise("Exception"),
     Return([error |-> "e"]),
     Return([news_results |-> <<[link |-> LinkA], [link |-> LinkB]>>]),
     Return([news_results |-> <<[link |-> LinkA], [link |-> LinkA]>>]),
     Return([news_results |-> <<[link |-> LinkB]>>]),
     Return([news_results |-> <<[link |-> LinkB], PyNone>>])}

\* results.get("news_results", None)
get_news_results(results) ==
    IF "news_results" \in DOMAIN results
    THEN PyList(results.news_results) ELSE PyNone
Falsy(x) == x.t = "NoneType" \/ (x.t = "list" /\ x.v = <<>>)

\* isinstance(article_obj, dict): SerpGnewsArticle(result) raises ValueError
\* for anything else.
IsDict(article_obj) == "t" \notin DOMAIN article_obj

\* get_dict_val(self.article_obj, ["link"]): None when the key is absent.
SerpGnewsArticle_link(article_obj) ==
    IF "link" \in DOMAIN article_obj THEN article_obj.link ELSE PyNone

\* Lines 222-225: the record of a result with the row's domain and token,
\* as the line written.  (The other properties of the result, authors,
\* publisher, serp_date and title, are copied along and never read.)
CleanLine(result, row) ==
    json_dumps([link |-> SerpGnewsArticle_link(result),
                domain |-> row.domain,
                pub_token |-> row.gnews_pub_token])

\* Mutant of NewCleanLines: the membership test left out.
RECURSIVE NewCleanLines_unfiltered(_, _, _)
NewCleanLines_unfiltered(results, existing_links, row) ==
    IF results = <<>> THEN <<>>
    ELSE IF ~IsDict(Head(results)) THEN <<>>
    ELSE <<CleanLine(Head(results), row)>>
            \o NewCleanLines_unfiltered(Tail(results), existing_links, row)

\* Lines 212-227: the lines the loop over results["news_results"] writes to
\* the clean file.  existing_links is not changed by the loop.  The loop
\* ends at the first result that is not a dict: SerpGnewsArticle raises and
\* the except clause of line 231 ends the domain's iteration.
RECURSIVE NewCleanLines(_, _, _)
NewCleanLines(results, existing_links, row) ==
    IF results = <<>> THEN <<>>
    ELSE IF ~IsDict(Head(results)) THEN <<>>
    ELSE IF SerpGnewsArticle_link(Head(results)) \in existing_links.v
         THEN NewCleanLines(Tail(results), existing_links, row)
    ELSE <<CleanLine(Head(results), row)>>
            \o NewCleanLines(Tail(results), existing_links, row)

RECURSIVE AppendLines(_, _, _)
AppendLines(f, fp, lines) ==
    IF lines = <<>> THEN f
    ELSE AppendLines(AppendLine(f, fp, Head(lines)), fp, Tail(lines))

serp_fp == PathJoin(SERP_RAW_DIR, DatedName(run.today_str))
serp_clean_fp == PathJoin(SERP_CLEAN_DIR_000, DatedName(run.today_str))

\* main, lines 181-191, where `files` is the outcome of the call of
\* collect_last_x_files at line 186.  An exception of that call, or of
\* len(existing_links) at line 189 when the index builder returned None,
\* leaves main and ends the script.
main_enter(files) ==
    /\ pc = "idle"
    /\ hist.runs < MaxRuns
    /\ LET existing_links ==
               IF Raised(files) THEN PyNone
               ELSE build_existing_links_set(fs, files.val)
           exc == IF Raised(files) THEN files.exc
                  ELSE IF existing_links.t = "NoneType" THEN "TypeError"
                  ELSE "none"
           rec == StartRec("000", quality_domains_df)
       IN  IF exc # "none"
           THEN /\ pc' = "idle"
                /\ run' = [stage |-> "000", exc |-> exc]
                /\ hist' = Started(hist, [rec EXCEPT !.exc = exc])
           ELSE /\ pc' = "000:loop"
                /\ run' = [stage |-> "000", today_str |-> today,
                           existing_links |-> existing_links, idx |-> 0]
                /\ hist' = Started(hist, rec)
    /\ UNCHANGED <<fs, today, call, ret>>

\* main with line 186 as the script writes it:
\* collect_last_x_files(path=SERP_CLEAN_DIR, max_paths=NUM_DAYS).
main_as_written ==
    main_enter(CallCollectLastXFiles(fs, <<>>,
                    [path |-> PyStr(SERP_CLEAN_DIR_000),
                     max_paths |-> PyInt(NUM_DAYS_000)]))

\* main with the lookback of line 186 passed as num_paths, all=False: the
\* form of the call the signature of collect_last_x_files accepts.
main_windowed ==
    main_enter(collect_last_x_files(fs, PyStr(SERP_CLEAN_DIR_000),
                    PyInt(NUM_DAYS_000), PyBool(FALSE)))

\* Mutant of main_domain: the raw line written below the test of
\* "news_results", so that a response without news results is not saved.
main_domain_raw_after_test ==
    /\ pc = "000:loop"
    /\ \E out \in FetchOutcomes :
        LET idx == run.idx
            row == quality_domains_df[idx + 1]
            wait == IF idx # 0 THEN <<[e |-> "wait"]>> ELSE <<>>
            opened == OpenAppend(fs, serp_fp)
            news == get_news_results(out.val)
            last == idx + 1 = Len(quality_domains_df)
        IN  /\ fs' =
                IF Raised(out) THEN opened
                ELSE IF Falsy(news) THEN opened
                ELSE AppendLines(
                        OpenAppend(
                            AppendLine(opened, serp_fp, json_dumps(out.val)),
                            serp_clean_fp),
                        serp_clean_fp,
                        NewCleanLines(news.v, run.existing_links, row))
            /\ hist' = Logged(hist,
                              wait \o <<[e |-> "fetch", row |-> row, out |-> out]>>,
                              last, "none")
            /\ run' = [run EXCEPT !.idx = idx + 1]
            /\ pc' = IF last THEN "idle" ELSE "000:loop"
    /\ UNCHANGED <<today, call, ret>>

\* The fetch raised, or the loop over the results met an item that
\* SerpGnewsArticle rejects.
DomainRaises(out) ==
    \/ Raised(out)
    \/ /\ ~Falsy(get_news_results(out.val))
       /\ \E i \in 1..Len(out.val.news_results) :
            ~IsDict(out.val.news_results[i])

\* Mutant of main_domain: the try statement around the loop over the
\* domains instead of inside it, so that the first exception ends the
\* loop and the function returns.
main_domain_try_around_loop ==
    /\ pc = "000:loop"
    /\ \E out \in FetchOutcomes :
        LET idx == run.idx
            row == quality_domains_df[idx + 1]
            wait == IF idx # 0 THEN <<[e |-> "wait"]>> ELSE <<>>
            opened == OpenAppend(fs, serp_fp)
            news == get_news_results(out.val)
            last == idx + 1 = Len(quality_domains_df) \/ DomainRaises(out)
        IN  /\ fs' =
                IF Raised(out) THEN opened
                ELSE LET raw == AppendLine(opened, serp_fp, json_dumps(out.val))
                     IN  IF Falsy(news) THEN raw
                         ELSE AppendLines(OpenAppend(raw, serp_clean_fp),
                                          serp_clean_fp,
                                          NewCleanLines(news.v,
                                              run.existing_links, row))
            /\ hist' = Logged(hist,
                              wait \o <<[e |-> "fetch", row |-> row, out |-> out]>>,
                              last, "none")
            /\ run' = [run EXCEPT !.idx = idx + 1]
            /\ pc' = IF last THEN "idle" ELSE "000:loop"
    /\ UNCHANGED <<today, call, ret>>

\* One iteration of the loop over the domain rows, lines 192-233.  An
\* exception of the fetch or of the processing of the results is caught at
\* line 231, inside the loop: the iteration ends and the loop goes on.
main_domain ==
    /\ pc = "000:loop"
    /\ \E out \in FetchOutcomes :
        LET idx == run.idx
            row == quality_domains_df[idx + 1]
            wait == IF idx # 0 THEN <<[e |-> "wait"]>> ELSE <<>>
            opened == OpenAppend(fs, serp_fp)
            news == get_news_results(out.val)
            last == idx + 1 = Len(quality_domains_df)
        IN  /\ fs' =
                IF Raised(out) THEN opened
                ELSE LET raw == AppendLine(opened, serp_fp, json_dumps(out.val))
                     IN  IF Falsy(news) THEN raw
                         ELSE AppendLines(OpenAppend(raw, serp_clean_fp),
                                          serp_clean_fp,
                                          NewCleanLines(news.v,
                                              run.existing_links, row))
            /\ hist' = Logged(hist,
                              wait \o <<[e |-> "fetch", row |-> row, out |-> out]>>,
                              last, "none")
            /\ run' = [run EXCEPT !.idx = idx + 1]
            /\ pc' = IF last THEN "idle" ELSE "000:loop"
    /\ UNCHANGED <<today, call, ret>>

\* The clean records an earlier run left behind.
OldCleanA == json_dumps([link |-> LinkA, domain |-> "d1", pub_token |-> "T1"])
InitCleanDirs ==
    {EmptyDir,
     [n \in {DatedName(NUM_DAYS_000)} |-> <<OldCleanA>>],
     [n \in {DatedName(NUM_DAYS_000)} |-> <<OldCleanA, MalformedLine>>],
     [n \in {DatedName(d) : d \in 1..NUM_DAYS_000} |->
        IF n = DatedName(1) THEN <<OldCleanA>> ELSE <<>>]}

InitCollect ==
    /\ \E d \in InitCleanDirs : fs = [EmptyFs EXCEPT ![SERP_CLEAN_DIR_000] = d]
    /\ today = FirstDay
    /\ pc = "idle"
    /\ run = NoRun
    /\ hist = NoHist
    /\ call = NoCall
    /\ ret = NoRet

NextCollect == main_as_written \/ main_windowed \/ main_domain \/ NextDay

SpecCollect == InitCollect /\ [][NextCollect]_vars

-----------------------------------------------------------------------------
(* Claims about the collect stage (SpecCollect) *)

\* The lines of a file of a directory, none when the file does not exist.
LinesOf(dir, name) == IF name \in DOMAIN dir THEN dir[name] ELSE <<>>

\* The names of the files inside the collect stage's lookback window.
RECURSIVE Range(_)
Range(q) == IF q = <<>> THEN {} ELSE {Head(q)} \cup Range(Tail(q))
CleanWindow(f) ==
    collect_last_x_files(f, PyStr(SERP_CLEAN_DIR_000),
                         PyInt(NUM_DAYS_000), PyBool(FALSE)).val

\* C6: after any sequence of collect runs, no link appears in more than one
\* record across the clean-record files that lie inside the lookback window
\* (the 14 most recent files): a link returned twice by the search API, in
\* the same response, by two domains of one run, or in a later run, is
\* written to the clean files at most once.
C6_NoDuplicateLinkInWindow ==
    pc = "idle" =>
        LET lines == ReadAll(fs, CleanWindow(fs))
        IN  \A i, j \in 1..Len(lines) :
                (/\ i # j
                 /\ lines[i].text = "json"
                 /\ lines[j].text = "json") =>
                    lines[i].obj.link # lines[j].obj.link

\* The run in progress, or the last one, is a collect run that reached its
\* domain loop.
InCollectLoop == hist.cur.stage = "000" /\ hist.cur.exc = "none"

\* The article results of a response: the items in front of the first one
\* that is not a dict.
RECURSIVE ArticleResults(_)
ArticleResults(results) ==
    IF results = <<>> THEN <<>>
    ELSE IF ~IsDict(Head(results)) THEN <<>>
    ELSE <<Head(results)>> \o ArticleResults(Tail(results))

\* The results of the fetches of a run, in order (none for a fetch that
\* raised or returned no news results), each with its domain row.
RECURSIVE FetchedResults(_)
FetchedResults(events) ==
    IF events = <<>> THEN <<>>
    ELSE LET ev == Head(events)
             here ==
                IF /\ ev.e = "fetch"
                   /\ ~Raised(ev.out)
                   /\ "news_results" \in DOMAIN ev.out.val
                THEN LET results == ArticleResults(ev.out.val.news_results)
                     IN  [i \in 1..Len(results) |->
                            [result |-> results[i], row |-> ev.row]]
                ELSE <<>>
         IN  here \o FetchedResults(Tail(events))

\* C7: in a collect run, for every article result returned by a fetch, a
\* clean record is appended to today's clean file if and only if the
\* result's link is absent from the key cache built at the start of the
\* run, and the appended record carries the domain and the publication
\* token of the domain row being fetched.
C7_AppendIffAbsentFromCache ==
    InCollectLoop =>
        LET name == DatedName(hist.cur.day)
            before == LinesOf(hist.cur.fs0[SERP_CLEAN_DIR_000], name)
            now == LinesOf(fs[SERP_CLEAN_DIR_000], name)
            fetched == FetchedResults(hist.cur.events)
            absent == SelectSeq(fetched,
                        LAMBDA x : x.result.link \notin run.existing_links.v)
        IN  /\ Len(now) = Len(before) + Len(absent)
            /\ SubSeq(now, 1, Len(before)) = before
            /\ \A i \in 1..Len(absent) :
                now[Len(before) + i] =
                    json_dumps([link |-> absent[i].result.link,
                                domain |-> absent[i].row.domain,
                                pub_token |-> absent[i].row.gnews_pub_token])

\* C7 witness: the cache holds a, the fetch of row d1 returned a and b, and
\* today's clean file holds exactly one record, for b, with d1 and T1.
C7_Witness ==
    /\ InCollectLoop
    /\ run.existing_links = PySet({LinkA})
    /\ Len(hist.cur.events) = 1
    /\ hist.cur.events[1].out =
            Return([news_results |-> <<[link |-> LinkA], [link |-> LinkB]>>])
    /\ LinesOf(fs[SERP_CLEAN_DIR_000], DatedName(hist.cur.day)) =
            <<json_dumps([link |-> LinkB, domain |-> "d1", pub_token |-> "T1"])>>

\* The outcomes of the fetches of a run, in order.
FetchOuts(events) ==
    LET fetches == SelectSeq(events, LAMBDA ev : ev.e = "fetch")
    IN  [i \in 1..Len(fetches) |-> fetches[i].out]

\* Two collect runs followed each other, both visited every domain, and
\* the search API returned the same in both.
TwoCollectRunsSameResults ==
    /\ hist.prev.stage = "000"
    /\ hist.cur.stage = "000"
    /\ hist.prev.done
    /\ hist.cur.done
    /\ FetchOuts(hist.cur.events) = FetchOuts(hist.prev.events)

\* The run appended no line to a file of the directory.
NothingAppended(rec, dir) ==
    \A n \in DOMAIN fs[dir] : fs[dir][n] = LinesOf(rec.fs0[dir], n)

\* C8 as stated: when two collect runs follow each other and the search API
\* returns the same results in both, the second run appends no record to
\* the clean-record file.
C8_CollectIdempotent ==
    TwoCollectRunsSameResults => NothingAppended(hist.cur, SERP_CLEAN_DIR_000)

\* Every clean file inside the window when the first run started is still
\* inside it when the second run starts.
NoFileLeftWindow ==
    Range(CleanWindow(hist.prev.fs0)) \subseteq Range(CleanWindow(hist.cur.fs0))

\* C8 amended: when two collect runs follow each other, the search API
\* returns the same results in both, and no clean file left the 14-file
\* window between the start of the first run and the start of the second,
\* the second run appends no record to the clean-record file.
C8_CollectIdempotentInWindow ==
    (TwoCollectRunsSameResults /\ NoFileLeftWindow) =>
        NothingAppended(hist.cur, SERP_CLEAN_DIR_000)

\* C8 witness: the first run appended records, the second run fetched the
\* same results and appended none, only the raw file grew.
C8_Witness ==
    /\ TwoCollectRunsSameResults
    /\ NoFileLeftWindow
    /\ hist.cur.fs0[SERP_CLEAN_DIR_000] # hist.prev.fs0[SERP_CLEAN_DIR_000]
    /\ NothingAppended(hist.cur, SERP_CLEAN_DIR_000)
    /\ ~NothingAppended(hist.cur, SERP_RAW_DIR)

\* The raw lines of the fetches that returned, in order.
RECURSIVE RawLines(_)
RawLines(outs) ==
    IF outs = <<>> THEN <<>>
    ELSE (IF Raised(Head(outs)) THEN <<>> ELSE <<json_dumps(Head(outs).val)>>)
            \o RawLines(Tail(outs))

\* C27: the collect stage saves all search results: for every domain whose
\* fetch returns, exactly one line holding the raw response is appended to
\* today's raw file, whether or not the response has news results and
\* whether or not any of its links is new; for a domain whose fetch raises,
\* no line is appended to the raw file.
C27_RawResponsesSaved ==
    InCollectLoop =>
        LET name == DatedName(hist.cur.day)
            before == LinesOf(hist.cur.fs0[SERP_RAW_DIR], name)
            now == LinesOf(fs[SERP_RAW_DIR], name)
        IN  now = before \o RawLines(FetchOuts(hist.cur.events))

\* C27 witness: a finished run whose first fetch returned two results with
\* the cached link a and whose second fetch raised: one raw line, the
\* first response, and no clean record.
C27_Witness ==
    /\ InCollectLoop
    /\ hist.cur.done
    /\ run.existing_links = PySet({LinkA})
    /\ FetchOuts(hist.cur.events) =
            <<Return([news_results |-> <<[link |-> LinkA], [link |-> LinkA]>>]),
              Raise("Exception")>>
    /\ LinesOf(fs[SERP_RAW_DIR], DatedName(hist.cur.day)) =
            LinesOf(hist.cur.fs0[SERP_RAW_DIR], DatedName(hist.cur.day)) \o
            <<json_dumps([news_results |-> <<[link |-> LinkA], [link |-> LinkA]>>])>>
    /\ NothingAppended(hist.cur, SERP_CLEAN_DIR_000)

\* The fetch events of a run, in order.
FetchEvents(events) == SelectSeq(events, LAMBDA ev : ev.e = "fetch")

\* The clean lines the processing of each fetched response writes, one
\* domain after the other.
RECURSIVE CleanLinesOf(_, _)
CleanLinesOf(fetches, existing_links) ==
    IF fetches = <<>> THEN <<>>
    ELSE LET ev == Head(fetches)
             news == get_news_results(ev.out.val)
             here == IF Raised(ev.out) \/ Falsy(news) THEN <<>>
                     ELSE NewCleanLines(news.v, existing_links, ev.row)
         IN  here \o CleanLinesOf(Tail(fetches), existing_links)

\* C32: per-domain isolation in the collect stage: when the fetch or the
\* processing of one domain raises, the error is caught inside the domain
\* loop and every later domain is still fetched and processed: no
\* exception ends the run, the run ends only after one fetch for every
\* domain row, in the order of the rows, and the clean file receives the
\* records of every domain whose results were processed, those before the
\* item that raised included.
C32_DomainIsolation ==
    (hist.cur.stage = "000" /\ "idx" \in DOMAIN run) =>
        LET fetches == FetchEvents(hist.cur.events)
            name == DatedName(hist.cur.day)
            before == LinesOf(hist.cur.fs0[SERP_CLEAN_DIR_000], name)
            now == LinesOf(fs[SERP_CLEAN_DIR_000], name)
        IN  /\ hist.cur.exc = "none"
            /\ Len(fetches) = run.idx
            /\ \A i \in 1..Len(fetches) :
                    fetches[i].row = quality_domains_df[i]
            /\ (pc = "idle") = (Len(fetches) = Len(quality_domains_df))
            /\ hist.cur.done = (pc = "idle")
            /\ now = before \o CleanLinesOf(fetches, run.existing_links)

\* C32 witness: a finished run on an empty cache in which the processing
\* of the first domain raised after the record of b was written and the
\* second domain was fetched and its record of b appended.
C32_Witness ==
    /\ hist.cur.stage = "000"
    /\ "idx" \in DOMAIN run
    /\ hist.cur.done
    /\ run.existing_links = PySet({})
    /\ FetchOuts(hist.cur.events) =
            <<Return([news_results |-> <<[link |-> LinkB], PyNone>>]),
              Return([news_results |-> <<[link |-> LinkB]>>])>>
    /\ DomainRaises(FetchOuts(hist.cur.events)[1])
    /\ LinesOf(fs[SERP_CLEAN_DIR_000], DatedName(hist.cur.day)) =
            LinesOf(hist.cur.fs0[SERP_CLEAN_DIR_000], DatedName(hist.cur.day)) \o
            <<json_dumps([link |-> LinkB, domain |-> "d1", pub_token |-> "T1"]),
              json_dumps([link |-> LinkB, domain |-> "d2", pub_token |-> "T2"])>>

\* C12: input corruption never aborts a collect run: whatever the lines of
\* the clean-record files inside the window are (unparseable and incomplete
\* lines included), a collect run whose window call has returned reaches
\* its domain loop; no exception ends it before the loop.
C12_CorruptionNeverAborts ==
    [][main_windowed => hist'.cur.exc = "none" /\ pc' = "000:loop"]_vars

-----------------------------------------------------------------------------
(* 001_collect_article_data.py and 002_summarize_article_data.py: the      *)
(* download and summarize stages                                           *)

MaxCand == 2

\* Mutant of ExtendAll: the records of each file put in front of those
\* already loaded, so that the candidates of the oldest file come first.
RECURSIVE ExtendAll_prepending(_, _)
ExtendAll_prepending(f, files) ==
    IF files = <<>> THEN <<>>
    ELSE ExtendAll_prepending(f, Tail(files))
            \o load_article_records(f, Head(files))

\* article_records.extend(load_article_records(file)) for file in files
RECURSIVE ExtendAll(_, _)
ExtendAll(f, files) ==
    IF files = <<>> THEN <<>>
    ELSE load_article_records(f, Head(files)) \o ExtendAll(f, Tail(files))

\* f"{link}\n"
LinkLine(link) == str(link) \o <<NL>>

\* What download_article_text(url) returns: the text of the article, or ""
\* when the download or the parse raised.  There is nothing to download at
\* the URL None.
ArticleText == "T"
DownloadTexts(link) == IF link.t = "NoneType" THEN {""} ELSE {ArticleText, ""}

\* What summarize(article_text=..., raw=True) does once its retries are
\* over: it returns a response, or raises.
SummarizeOutcomes == {Return("S"), Raise("RetryError")}

\* article["text"] = ...
WithText(article, text) ==
    [k \in (DOMAIN article) \cup {"text"} |->
        IF k = "text" THEN text ELSE article[k]]

\* article.update(parse_response(response)).  (finish_reason, the token
\* counts, time_created and model are written along and never read.)
WithSummary(article, summary) ==
    [k \in (DOMAIN article) \cup {"article_summary"} |->
        IF k = "article_summary" THEN summary ELSE article[k]]

article_fp == PathJoin(ARTICLE_RECORDS_DIR, DatedName(run.today_str))
links_fp_001 == PathJoin(DOWNLOADED_LINKS_DIR_001, DatedName(run.today_str))
summaries_fp == PathJoin(SUMMARIES_DIR, DatedName(run.today_str))
links_fp_002 == PathJoin(DOWNLOADED_LINKS_DIR_002, DatedName(run.today_str))

\* The script ends with an exception before it has opened a file.
ScriptDies(stage, input, exc) ==
    /\ pc' = "idle"
    /\ run' = [stage |-> stage, exc |-> exc]
    /\ hist' = Started(hist, [StartRec(stage, input) EXCEPT !.exc = exc])
    /\ fs' = fs

\* A stage function has opened its two files (dir1 for the records, dir2
\* for the link cache) and enters its loop over article_records; with no
\* record the loop is over at once and the function returns.
EnterLoop(stage, article_records, links_set, dir1, dir2) ==
    /\ pc' = IF article_records = <<>> THEN "idle" ELSE stage
    /\ run' = [stage |-> stage, today_str |-> today,
               article_records |-> article_records,
               downloaded_links_set |-> links_set, idx |-> 0]
    /\ hist' = Started(hist,
                [StartRec(stage, article_records) EXCEPT
                    !.done = (article_records = <<>>)])
    /\ fs' = OpenAppend(OpenAppend(fs, PathJoin(dir1, DatedName(today))),
                        PathJoin(dir2, DatedName(today)))

\* 001: __main__ (lines 206-216) up to the loop of process_articles (lines
\* 164-175).  record_files is the outcome of the call of
\* collect_last_x_files at line 208, files of the one at line 169.
script_001_enter(record_files, files) ==
    /\ pc = "idle"
    /\ hist.runs < MaxRuns
    /\ IF Raised(record_files) THEN ScriptDies("001", <<>>, record_files.exc)
       ELSE LET article_records == ExtendAll(fs, record_files.val)
            IN  IF Raised(files)
                THEN ScriptDies("001", article_records, files.exc)
                ELSE EnterLoop("001", article_records,
                               load_downloaded_links(fs, files.val),
                               ARTICLE_RECORDS_DIR, DOWNLOADED_LINKS_DIR_001)
    /\ UNCHANGED <<today, call, ret>>

NoKw == [k \in {} |-> PyNone]

\* 001 as the script writes its calls:
\* collect_last_x_files(SERP_CLEAN_DIR, NUM_DAYS - 1) and
\* collect_last_x_files(DOWNLOADED_LINKS_DIR, NUM_DAYS).
script_001_as_written ==
    script_001_enter(
        CallCollectLastXFiles(fs,
            <<PyStr(SERP_CLEAN_DIR_001), PyInt(NUM_DAYS_001 - 1)>>, NoKw),
        CallCollectLastXFiles(fs,
            <<PyStr(DOWNLOADED_LINKS_DIR_001), PyInt(NUM_DAYS_001)>>, NoKw))

\* 001 with the same lookbacks passed as num_paths, all=False.
script_001_windowed ==
    script_001_enter(
        collect_last_x_files(fs, PyStr(SERP_CLEAN_DIR_001),
                             PyInt(NUM_DAYS_001 - 1), PyBool(FALSE)),
        collect_last_x_files(fs, PyStr(DOWNLOADED_LINKS_DIR_001),
                             PyInt(NUM_DAYS_001), PyBool(FALSE)))

\* Mutant of process_articles_step: a candidate found in the set of
\* downloaded links has its link written to the link file again.
process_articles_step_skip_recorded ==
    /\ pc = "001"
    /\ LET idx == run.idx + 1
           article == run.article_records[idx]
           link == article.link
           wait == IF idx # 1 THEN <<[e |-> "wait"]>> ELSE <<>>
           last == idx = Len(run.article_records)
       IN  /\ IF link \in run.downloaded_links_set.v
              THEN /\ fs' = AppendLine(fs, links_fp_001, LinkLine(link))
                   /\ hist' = Logged(hist,
                                wait \o <<[e |-> "skip", idx |-> idx]>>,
                                last, "none")
              ELSE \E text \in DownloadTexts(link) :
                   /\ fs' = AppendLine(
                                AppendLine(fs, article_fp,
                                    json_dumps(WithText(article, text))),
                                links_fp_001, LinkLine(link))
                   /\ hist' = Logged(hist,
                                wait \o <<[e |-> "work", idx |-> idx,
                                           ok |-> (text # "")]>>,
                                last, "none")
           /\ run' = [run EXCEPT !.idx = idx]
           /\ pc' = IF last THEN "idle" ELSE "001"
    /\ UNCHANGED <<today, call, ret>>

\* 001: one iteration of the loop of process_articles, lines 176-197.
\* download_article_text catches its exceptions, so the record and the link
\* are written whether or not the text was downloaded; the set of
\* downloaded links is not changed by the loop.
process_articles_step ==
    /\ pc = "001"
    /\ LET idx == run.idx + 1
           article == run.article_records[idx]
           link == article.link
           wait == IF idx # 1 THEN <<[e |-> "wait"]>> ELSE <<>>
           last == idx = Len(run.article_records)
       IN  /\ IF link \in run.downloaded_links_set.v
              THEN /\ fs' = fs
                   /\ hist' = Logged(hist,
                                wait \o <<[e |-> "skip", idx |-> idx]>>,
                                last, "none")
              ELSE \E text \in DownloadTexts(link) :
                   /\ fs' = AppendLine(
                                AppendLine(fs, article_fp,
                                    json_dumps(WithText(article, text))),
                                links_fp_001, LinkLine(link))
                   /\ hist' = Logged(hist,
                                wait \o <<[e |-> "work", idx |-> idx,
                                           ok |-> (text # "")]>>,
                                last, "none")
           /\ run' = [run EXCEPT !.idx = idx]
           /\ pc' = IF last THEN "idle" ELSE "001"
    /\ UNCHANGED <<today, call, ret>>

\* 002: __main__ (lines 278-302) up to the loop of summarize_articles
\* (lines 229-244).  record_files is the outcome of the call of
\* collect_last_x_files at line 288, files of the one at line 236.
script_002_enter(record_files, files) ==
    /\ pc = "idle"
    /\ hist.runs < MaxRuns
    /\ IF Raised(record_files) THEN ScriptDies("002", <<>>, record_files.exc)
       ELSE LET article_records == ExtendAll(fs, record_files.val)
            IN  IF Raised(files)
                THEN ScriptDies("002", article_records, files.exc)
                ELSE EnterLoop("002", article_records,
                               load_downloaded_links(fs, files.val),
                               SUMMARIES_DIR, DOWNLOADED_LINKS_DIR_002)
    /\ UNCHANGED <<today, call, ret>>

\* 002 as the script writes its calls:
\* collect_last_x_files(path=ARTICLE_RECORDS_DIR, max_paths=NUM_DAYS) and
\* collect_last_x_files(path=DOWNLOADED_LINKS_DIR, max_paths=NUM_DAYS).
script_002_as_written ==
    script_002_enter(
        CallCollectLastXFiles(fs, <<>>,
            [path |-> PyStr(ARTICLE_RECORDS_DIR),
             max_paths |-> PyInt(NUM_DAYS_002)]),
        CallCollectLastXFiles(fs, <<>>,
            [path |-> PyStr(DOWNLOADED_LINKS_DIR_002),
             max_paths |-> PyInt(NUM_DAYS_002)]))

\* 002 with the same lookbacks passed as num_paths, all=False.
script_002_windowed ==
    script_002_enter(
        collect_last_x_files(fs, PyStr(ARTICLE_RECORDS_DIR),
                             PyInt(NUM_DAYS_002), PyBool(FALSE)),
        collect_last_x_files(fs, PyStr(DOWNLOADED_LINKS_DIR_002),
                             PyInt(NUM_DAYS_002), PyBool(FALSE)))

\* Mutant of summarize_articles_step: the record is written before
\* summarize is called, so that a raise leaves a record without its link.
summarize_articles_step_record_first ==
    /\ pc = "002"
    /\ LET idx == run.idx + 1
           article == run.article_records[idx]
           link == article.link
           last == idx = Len(run.article_records)
           written == AppendLine(fs, summaries_fp, json_dumps(article))
       IN  /\ IF link \in run.downloaded_links_set.v
              THEN /\ fs' = fs
                   /\ hist' = Logged(hist, <<[e |-> "skip", idx |-> idx]>>,
                                     last, "none")
                   /\ pc' = IF last THEN "idle" ELSE "002"
              ELSE \E response \in SummarizeOutcomes :
                   IF Raised(response)
                   THEN /\ fs' = written
                        /\ hist' = Logged(hist,
                                    <<[e |-> "work", idx |-> idx, ok |-> FALSE]>>,
                                    TRUE, response.exc)
                        /\ pc' = "idle"
                   ELSE /\ fs' = AppendLine(written, links_fp_002, LinkLine(link))
                        /\ hist' = Logged(hist,
                                    <<[e |-> "work", idx |-> idx, ok |-> TRUE]>>,
                                    last, "none")
                        /\ pc' = IF last THEN "idle" ELSE "002"
           /\ run' = [run EXCEPT !.idx = idx]
    /\ UNCHANGED <<today, call, ret>>

\* 002: one iteration of the loop of summarize_articles, lines 245-273.
\* The try block wraps the whole loop: when summarize raises, the except
\* branch prints and the function returns without visiting the candidates
\* that are left.
summarize_articles_step ==
    /\ pc = "002"
    /\ LET idx == run.idx + 1
           article == run.article_records[idx]
           link == article.link
           last == idx = Len(run.article_records)
       IN  /\ IF link \in run.downloaded_links_set.v
              THEN /\ fs' = fs
                   /\ hist' = Logged(hist, <<[e |-> "skip", idx |-> idx]>>,
                                     last, "none")
                   /\ pc' = IF last THEN "idle" ELSE "002"
              ELSE \E response \in SummarizeOutcomes :
                   IF Raised(response)
                   THEN /\ fs' = fs
                        /\ hist' = Logged(hist,
                                    <<[e |-> "work", idx |-> idx, ok |-> FALSE]>>,
                                    TRUE, response.exc)
                        /\ pc' = "idle"
                   ELSE /\ fs' = AppendLine(
                                    AppendLine(fs, summaries_fp,
                                        json_dumps(WithSummary(article,
                                                               response.val))),
                                    links_fp_002, LinkLine(link))
                        /\ hist' = Logged(hist,
                                    <<[e |-> "work", idx |-> idx, ok |-> TRUE]>>,
                                    last, "none")
                        /\ pc' = IF last THEN "idle" ELSE "002"
           /\ run' = [run EXCEPT !.idx = idx]
    /\ UNCHANGED <<today, call, ret>>

\* The clean records the download stage finds in its input directory.
CleanRecords ==
    {[link |-> l, domain |-> "d1", pub_token |-> "T1"] : l \in Links}
CandidateLists == SeqsUpTo(CleanRecords, MaxCand)

RECURSIVE MapSeq(_, _)
MapSeq(Op(_), q) ==
    IF q = <<>> THEN <<>> ELSE <<Op(Head(q))>> \o MapSeq(Op, Tail(q))

\* Either the download stage's input directory holds today's clean records
\* and nothing was downloaded yet, or an earlier download run has already
\* downloaded them all.
FsBeforeDownload(cands) ==
    [EmptyFs EXCEPT ![SERP_CLEAN_DIR_001] =
        [n \in {DatedName(FirstDay)} |-> MapSeq(json_dumps, cands)]]
FsAfterDownload(cands) ==
    [FsBeforeDownload(cands) EXCEPT
        ![ARTICLE_RECORDS_DIR] =
            [n \in {DatedName(FirstDay)} |->
                MapSeq(LAMBDA r :
                    json_dumps(WithText(r,
                        IF r.link.t = "NoneType" THEN "" ELSE ArticleText)),
                    cands)],
        ![DOWNLOADED_LINKS_DIR_001] =
            [n \in {DatedName(FirstDay)} |->
                MapSeq(LAMBDA r : LinkLine(r.link), cands)]]

\* The download stage ran on the days 1 .. NUM_DAYS_001 + 1 and the collect
\* stage wrote records on day 1 only: the first download run downloaded them
\* all, each later run found them cached and left its two files empty.
FsAgedDownload(cands) ==
    LET days == {DatedName(d) : d \in 1..(NUM_DAYS_001 + 1)}
    IN  [EmptyFs EXCEPT
            ![SERP_CLEAN_DIR_001] =
                [n \in {DatedName(1)} |-> MapSeq(json_dumps, cands)],
            ![ARTICLE_RECORDS_DIR] =
                [n \in days |->
                    IF n = DatedName(1)
                    THEN FsAfterDownload(cands)[ARTICLE_RECORDS_DIR][DatedName(FirstDay)]
                    ELSE <<>>],
            ![DOWNLOADED_LINKS_DIR_001] =
                [n \in days |->
                    IF n = DatedName(1)
                    THEN MapSeq(LAMBDA r : LinkLine(r.link), cands)
                    ELSE <<>>]]

InitStages ==
    /\ \E cands \in CandidateLists :
        fs \in {FsBeforeDownload(cands), FsAfterDownload(cands),
                FsAgedDownload(cands)}
    /\ today = FirstDay
    /\ pc = "idle"
    /\ run = NoRun
    /\ hist = NoHist
    /\ call = NoCall
    /\ ret = NoRet

NextStages ==
    \/ script_001_as_written
    \/ script_001_windowed
    \/ process_articles_step
    \/ script_002_as_written
    \/ script_002_windowed
    \/ summarize_articles_step
    \/ NextDay

SpecStages == InitStages /\ [][NextStages]_vars

-----------------------------------------------------------------------------
(* Spec: the three stage scripts run one after another, in any order, on   *)
(* the directories they share.                                             *)

Init == InitCollect \/ InitStages

Next ==
    \/ main_as_written
    \/ main_windowed
    \/ main_domain
    \/ script_001_as_written
    \/ script_001_windowed
    \/ process_articles_step
    \/ script_002_as_written
    \/ script_002_windowed
    \/ summarize_articles_step
    \/ NextDay

Spec == Init /\ [][Next]_vars

-----------------------------------------------------------------------------
(* Claims about the store (Spec) *)

IsPrefix(a, b) == Len(a) <= Len(b) /\ SubSeq(b, 1, Len(a)) = a

\* C18: append-only store: across any sequence of runs of any stage, every
\* dated file that exists before a step exists after it, and its content
\* before the step is a prefix of its content after the step; this holds
\* for the steps that read a window and open today's files too.
C18_AppendOnly ==
    [][\A d \in Dirs : \A n \in DOMAIN fs[d] :
            /\ n \in DOMAIN fs'[d]
            /\ IsPrefix(fs[d][n], fs'[d][n])]_vars

\* C18 witness: a run has appended to a dated file that already held lines
\* when the run started, and the lines it held are still its first lines.
C18_Witness ==
    /\ "fs0" \in DOMAIN hist.cur
    /\ \E d \in Dirs : \E n \in DOMAIN hist.cur.fs0[d] :
            /\ hist.cur.fs0[d][n] # <<>>
            /\ Len(fs[d][n]) > Len(hist.cur.fs0[d][n])
            /\ IsPrefix(hist.cur.fs0[d][n], fs[d][n])

-----------------------------------------------------------------------------
(* Claims about the download and summarize stages (SpecStages) *)

\* The directories a stage appends to: its records and its link cache.
OutDir(stage) == IF stage = "001" THEN ARTICLE_RECORDS_DIR ELSE SUMMARIES_DIR
LinksDir(stage) ==
    IF stage = "001" THEN DOWNLOADED_LINKS_DIR_001 ELSE DOWNLOADED_LINKS_DIR_002

\* The run is a download or summarize run that entered its loop.
InStageLoop(rec) == rec.stage \in {"001", "002"} /\ "events" \in DOMAIN rec
                    /\ (rec.exc = "none" \/ rec.done)

\* The events of a run by kind, and the candidates they are about.
WorkEvents(rec) == {i \in 1..Len(rec.events) : rec.events[i].e = "work"}
SkipEvents(rec) == {i \in 1..Len(rec.events) : rec.events[i].e = "skip"}
Worked(rec) == {rec.events[i].idx : i \in WorkEvents(rec)}
Skipped(rec) == {rec.events[i].idx : i \in SkipEvents(rec)}
Failed(rec) == {rec.events[i].idx : i \in {j \in WorkEvents(rec) : ~rec.events[j].ok}}
Succeeded(rec) == {rec.events[i].idx : i \in {j \in WorkEvents(rec) : rec.events[j].ok}}

\* The lines the run appended to today's file of a directory.
AppendedTo(rec, dir) ==
    LET before == LinesOf(rec.fs0[dir], DatedName(rec.day))
        now == LinesOf(fs[dir], DatedName(rec.day))
    IN  SubSeq(now, Len(before) + 1, Len(now))

\* C1: idempotence of the download stage and of the summarize stage: when a
\* run of the stage has completed (it visited all its candidates and no
\* exception ended it) and a second run of the same stage starts right
\* after it with the same upstream records, the second run performs the
\* unit of work for no candidate and appends nothing to the output file or
\* to the link-cache file.
C1_StageIdempotent ==
    (/\ InStageLoop(hist.prev)
     /\ InStageLoop(hist.cur)
     /\ hist.cur.stage = hist.prev.stage
     /\ hist.prev.done
     /\ hist.prev.exc = "none"
     /\ hist.cur.day = hist.prev.day
     /\ hist.cur.input = hist.prev.input) =>
        /\ Worked(hist.cur) = {}
        /\ NothingAppended(hist.cur, OutDir(hist.cur.stage))
        /\ NothingAppended(hist.cur, LinksDir(hist.cur.stage))

\* C2: within one run of the download or summarize stage the same link is
\* never processed twice: after a candidate was processed successfully no
\* later candidate of that run with the same link gets the unit of work,
\* and the run appends at most one record for that link.
C2_NoDoubleProcessing ==
    InStageLoop(hist.cur) =>
        LET appended == AppendedTo(hist.cur, OutDir(hist.cur.stage))
        IN  \A i \in Succeeded(hist.cur) :
                /\ \A j \in Worked(hist.cur) :
                        i < j => hist.cur.input[j].link # hist.cur.input[i].link
                /\ Cardinality({k \in 1..Len(appended) :
                        appended[k].obj.link = hist.cur.input[i].link}) <= 1

\* C3: per-item isolation: when the unit of work of one candidate fails,
\* every later candidate in input order is still examined in the same run,
\* and each later candidate whose link is not in the key cache gets its
\* unit of work.
C3_PerItemIsolation ==
    (InStageLoop(hist.cur) /\ hist.cur.done) =>
        \A i \in Failed(hist.cur) :
            \A j \in (i + 1)..Len(hist.cur.input) :
                /\ j \in Worked(hist.cur) \cup Skipped(hist.cur)
                /\ hist.cur.input[j].link \notin run.downloaded_links_set.v
                        => j \in Worked(hist.cur)

\* C4: when the unit of work of a candidate fails, no record for that
\* candidate is appended to the stage's output file and its link is not
\* appended to the stage's link-cache file: a run in which no unit of work
\* succeeded has appended nothing.
C4_FailureLeavesNoTrace ==
    (InStageLoop(hist.cur) /\ Succeeded(hist.cur) = {}) =>
        /\ NothingAppended(hist.cur, OutDir(hist.cur.stage))
        /\ NothingAppended(hist.cur, LinksDir(hist.cur.stage))

\* C5: a candidate whose unit of work failed in one run of a stage (and
\* whose link no unit of work of that run succeeded for) is not skipped by
\* the next run of that stage: while its record is among the candidates of
\* the next run, that run does not skip it, and has attempted its unit of
\* work when it ends.
C5_FailedCandidateRetried ==
    (/\ InStageLoop(hist.prev)
     /\ InStageLoop(hist.cur)
     /\ hist.cur.stage = hist.prev.stage
     /\ hist.prev.done) =>
        \A i \in Failed(hist.prev) :
            (\A k \in Succeeded(hist.prev) :
                hist.prev.input[k].link # hist.prev.input[i].link) =>
            \A j \in 1..Len(hist.cur.input) :
                hist.cur.input[j].link = hist.prev.input[i].link =>
                    /\ j \notin Skipped(hist.cur)
                    /\ hist.cur.done => j \in Worked(hist.cur)

\* The links of the records with a downloaded text that the article files
\* held when the run started.
RECURSIVE AllLines(_)
AllLines(dir) ==
    IF DOMAIN dir = {} THEN <<>>
    ELSE LET n == CHOOSE x \in DOMAIN dir : TRUE
         IN  dir[n] \o AllLines([m \in (DOMAIN dir) \ {n} |-> dir[m]])
DownloadedBefore(rec) ==
    LET lines == AllLines(rec.fs0[ARTICLE_RECORDS_DIR])
    IN  {lines[i].obj.link : i \in {j \in 1..Len(lines) : lines[j].obj.text # ""}}

\* C14: at-most-once work across download runs: a link whose record is
\* among the candidates of a download run (inside the upstream window) and
\* that an earlier download run already downloaded is not downloaded again.
C14_AtMostOnceAcrossRuns ==
    (InStageLoop(hist.cur) /\ hist.cur.stage = "001") =>
        \A i \in Worked(hist.cur) :
            hist.cur.input[i].link \notin DownloadedBefore(hist.cur)

\* C16: in a download run a candidate whose key is in the key cache is
\* skipped without a pacing delay: no wait happens right before a skip.
C16_SkipWithoutWait ==
    (InStageLoop(hist.cur) /\ hist.cur.stage = "001") =>
        \A i \in 2..Len(hist.cur.events) :
            hist.cur.events[i].e = "skip" => hist.cur.events[i - 1].e # "wait"

\* The positions of the units of work in the events of a run: the fetches of
\* a collect run, the downloads or the summarize calls of the other stages.
UnitEvents(rec) ==
    {i \in 1..Len(rec.events) : rec.events[i].e \in {"work", "fetch"}}

\* C17: in every stage run the pacing wait is skipped only before the first
\* unit of work performed in the run: a wait happens right before every
\* later unit of work.
C17_WaitBeforeLaterWork ==
    (hist.cur.stage \in {"000", "001", "002"} /\ "events" \in DOMAIN hist.cur) =>
        \A i \in UnitEvents(hist.cur) :
            (\E j \in UnitEvents(hist.cur) : j < i) =>
                hist.cur.events[i - 1].e = "wait"

\* The upstream directory of a stage and the size of its window.
UpstreamDir(stage) ==
    IF stage = "001" THEN SERP_CLEAN_DIR_001 ELSE ARTICLE_RECORDS_DIR
UpstreamK(stage) == IF stage = "001" THEN NUM_DAYS_001 - 1 ELSE NUM_DAYS_002

\* The paths of the upstream window of a run, as it was when the run
\* started.
UpstreamWindow(rec) ==
    collect_last_x_files(rec.fs0, PyStr(UpstreamDir(rec.stage)),
                         PyInt(UpstreamK(rec.stage)), PyBool(FALSE)).val

\* The events of a run that examine a candidate, and those that write a
\* record: every download, and every summarize call that returned.
Examined(rec) == SelectSeq(rec.events, LAMBDA ev : ev.e \in {"work", "skip"})
Wrote(rec) ==
    SelectSeq(rec.events,
              LAMBDA ev : ev.e = "work" /\ (rec.stage = "001" \/ ev.ok))

C19_RecordAndCacheEntryTogether ==
    (InStageLoop(hist.cur) /\ hist.cur.done) =>
        LET recs == AppendedTo(hist.cur, OutDir(hist.cur.stage))
            links == AppendedTo(hist.cur, LinksDir(hist.cur.stage))
        IN  /\ Len(links) = Len(recs)
            /\ \A i \in 1..Len(recs) :
                    links[i] = str(recs[i].obj.link) \o <<NL>>

\* C19 witness: a summarize run that appended one record and its link and
\* was then stopped by the exception of the next candidate.
C19_Witness ==
    /\ InStageLoop(hist.cur)
    /\ hist.cur.stage = "002"
    /\ hist.cur.done
    /\ hist.cur.exc = "RetryError"
    /\ Len(AppendedTo(hist.cur, SUMMARIES_DIR)) = 1
    /\ AppendedTo(hist.cur, DOWNLOADED_LINKS_DIR_002) = <<<<"a", NL>>>>

-----------------------------------------------------------------------------
(* Claims about the stages together (Spec) *)

\* A stage script starts with its calls of collect_last_x_files as written.
StageStartsAsWritten ==
    main_as_written \/ script_001_as_written \/ script_002_as_written

\* C31: step 1 of every stage run succeeds: the call each stage script
\* makes to collect_last_x_files for its own output/cache directory
\* (collect with lookback 14, download with lookback 4, summarize with
\* lookback 14, download's upstream with lookback 3) is accepted by the
\* function and returns the most recent files up to that lookback, rather
\* than raising: no run ends with an exception before its loop.
C31_WindowCallsAccepted ==
    [][StageStartsAsWritten => hist'.cur.exc = "none"]_vars

\* The next candidate of the download or summarize loop is in the set of
\* links loaded at the start of the run.
NextCandidateCached ==
    /\ pc \in {"001", "002"}
    /\ run.article_records[run.idx + 1].link \in run.downloaded_links_set.v

\* The step fetched a response with article results, and the link of every
\* one of them is in the collect run's set of existing links.
FetchedOnlyCached ==
    /\ pc = "000:loop"
    /\ hist'.cur.events # hist.cur.events
    /\ LET ev == hist'.cur.events[Len(hist'.cur.events)]
           news == get_news_results(ev.out.val)
       IN  /\ ~Raised(ev.out)
           /\ ~Falsy(news)
           /\ ArticleResults(news.v) # <<>>
           /\ \A i \in 1..Len(ArticleResults(news.v)) :
                SerpGnewsArticle_link(news.v[i]) \in run.existing_links.v

\* The files of a directory hold the same lines before and after the step.
SameLines(dir) ==
    \A n \in DOMAIN fs'[dir] : fs'[dir][n] = LinesOf(fs[dir], n)

\* C35: skipping has no effect on the store: examining a candidate that is
\* already cached leaves the stage's output file, its link-cache file and
\* the in-memory key cache unchanged, in the collect stage (a response
\* whose results are all cached adds nothing to the clean files, which are
\* its output and its cache), in the download stage and in the summarize
\* stage.
C35_SkipLeavesStoreUnchanged ==
    [][/\ NextCandidateCached =>
            /\ fs' = fs
            /\ run'.downloaded_links_set = run.downloaded_links_set
       /\ FetchedOnlyCached =>
            /\ SameLines(SERP_CLEAN_DIR_000)
            /\ run'.existing_links = run.existing_links]_vars

\* C35 witness: a download run in which every candidate was skipped has
\* ended, and the article file and the link file hold what they held when
\* the run started.
C35_Witness ==
    /\ hist.cur.stage = "001"
    /\ hist.cur.done
    /\ hist.cur.exc = "none"
    /\ Skipped(hist.cur) = 1..Len(hist.cur.input)
    /\ Len(hist.cur.input) = MaxCand
    /\ AppendedTo(hist.cur, ARTICLE_RECORDS_DIR) = <<>>
    /\ AppendedTo(hist.cur, DOWNLOADED_LINKS_DIR_001) = <<>>

\* The clean records a collect run appended, given the file system at the
\* start of the run that followed it.
CollectAppended(rec, after) ==
    LET name == DatedName(rec.day)
        before == LinesOf(rec.fs0[SERP_CLEAN_DIR_000], name)
        now == LinesOf(after[SERP_CLEAN_DIR_000], name)
    IN  SubSeq(now, Len(before) + 1, Len(now))

\* C33: the collect stage feeds the download stage: every clean record
\* appended by a collect run is a candidate of the next download run, that
\* is, the directory the download stage reads its candidates from is the
\* directory the collect stage appends its clean records to, and in a
\* download run in which no unit of work raises every such candidate is
\* either skipped as already cached or downloaded and recorded.
C33_CollectFeedsDownload ==
    (/\ hist.prev.stage = "000"
     /\ hist.cur.stage = "001"
     /\ InStageLoop(hist.cur)) =>
        LET appended == CollectAppended(hist.prev, hist.cur.fs0)
        IN  \A i \in 1..Len(appended) :
                \E j \in 1..Len(hist.cur.input) :
                    /\ hist.cur.input[j] = appended[i].obj
                    /\ hist.cur.done =>
                        j \in Worked(hist.cur) \cup Skipped(hist.cur)

-----------------------------------------------------------------------------
(* SpecRetry: the summarize stage with the attempts of summarize one by    *)
(* one.  summarize is wrapped by tenacity's                                *)
(* @retry(wait=wait_random_exponential(min=1, max=60),                     *)
(*        stop=stop_after_attempt(6)):                                     *)
(* the wrapper calls the function, returns what it returns, and after an   *)
(* exception waits and calls it again until the stop condition holds; it   *)
(* then raises RetryError (reraise is not set).  call holds the retry      *)
(* state of the call in progress: the number of attempts made so far.      *)

\* stop_after_attempt(6)
StopAfterAttempt == 6

\* What one call of openai_client.chat.completions.create does inside
\* summarize: it returns a response, or it raises and summarize re-raises.
CreateOutcomes == {Return("S"), Raise("APIError")}

\* The attempts the call of summarize in progress has made.
attempt_number == IF call = NoCall THEN 0 ELSE call.attempt_number

\* 002, lines 245-251: the candidate is in the set of summarized links.
summarize_articles_skip ==
    /\ pc = "002"
    /\ LET idx == run.idx + 1
           link == run.article_records[idx].link
           last == idx = Len(run.article_records)
       IN  /\ link \in run.downloaded_links_set.v
           /\ hist' = Logged(hist, <<[e |-> "skip", idx |-> idx]>>,
                             last, "none")
           /\ pc' = IF last THEN "idle" ELSE "002"
           /\ run' = [run EXCEPT !.idx = idx]
    /\ UNCHANGED <<fs, today, call, ret>>

\* Mutant of summarize_attempt: the stop condition tested one attempt late,
\* so that a seventh attempt is made.
summarize_attempt_one_more ==
    /\ pc = "002"
    /\ LET idx == run.idx + 1
           article == run.article_records[idx]
           link == article.link
           last == idx = Len(run.article_records)
           n == attempt_number + 1
       IN  /\ link \notin run.downloaded_links_set.v
           /\ \E response \in CreateOutcomes :
                IF ~Raised(response)
                THEN /\ fs' = AppendLine(
                                AppendLine(fs, summaries_fp,
                                    json_dumps(WithSummary(article,
                                                           response.val))),
                                links_fp_002, LinkLine(link))
                     /\ hist' = Logged(hist,
                                  <<[e |-> "work", idx |-> idx, ok |-> TRUE,
                                     attempts |-> n]>>,
                                  last, "none")
                     /\ pc' = IF last THEN "idle" ELSE "002"
                     /\ run' = [run EXCEPT !.idx = idx]
                     /\ call' = NoCall
                ELSE IF n > StopAfterAttempt
                THEN /\ fs' = fs
                     /\ hist' = Logged(hist,
                                  <<[e |-> "work", idx |-> idx, ok |-> FALSE,
                                     attempts |-> n]>>,
                                  TRUE, "RetryError")
                     /\ pc' = "idle"
                     /\ run' = [run EXCEPT !.idx = idx]
                     /\ call' = NoCall
                ELSE /\ call' = [fn |-> "summarize", attempt_number |-> n]
                     /\ UNCHANGED <<fs, hist, pc, run>>
    /\ UNCHANGED <<today, ret>>

\* Mutant of summarize_attempt: after the last attempt allowed has failed
\* the call of summarize is started over instead of raising RetryError.
summarize_attempt_started_over ==
    /\ pc = "002"
    /\ LET idx == run.idx + 1
           article == run.article_records[idx]
           link == article.link
           last == idx = Len(run.article_records)
           n == attempt_number + 1
       IN  /\ link \notin run.downloaded_links_set.v
           /\ \E response \in CreateOutcomes :
                IF ~Raised(response)
                THEN /\ fs' = AppendLine(
                                AppendLine(fs, summaries_fp,
                                    json_dumps(WithSummary(article,
                                                           response.val))),
                                links_fp_002, LinkLine(link))
                     /\ hist' = Logged(hist,
                                  <<[e |-> "work", idx |-> idx, ok |-> TRUE,
                                     attempts |-> n]>>,
                                  last, "none")
                     /\ pc' = IF last THEN "idle" ELSE "002"
                     /\ run' = [run EXCEPT !.idx = idx]
                     /\ call' = NoCall
                ELSE /\ call' = [fn |-> "summarize",
                                 attempt_number |->
                                    IF n >= StopAfterAttempt THEN 1 ELSE n]
                     /\ UNCHANGED <<fs, hist, pc, run>>
    /\ UNCHANGED <<today, ret>>

\* 002, lines 253-268 with one attempt of the call of summarize at line
\* 258: the first attempt for a candidate, or the next one after a wait.
\* A response ends the call and the record and the link are written; an
\* exception is followed by another attempt unless this was the last one
\* allowed, and then RetryError reaches the except clause of line 270.
summarize_attempt ==
    /\ pc = "002"
    /\ LET idx == run.idx + 1
           article == run.article_records[idx]
           link == article.link
           last == idx = Len(run.article_records)
           n == attempt_number + 1
       IN  /\ link \notin run.downloaded_links_set.v
           /\ \E response \in CreateOutcomes :
                IF ~Raised(response)
                THEN /\ fs' = AppendLine(
                                AppendLine(fs, summaries_fp,
                                    json_dumps(WithSummary(article,
                                                           response.val))),
                                links_fp_002, LinkLine(link))
                     /\ hist' = Logged(hist,
                                  <<[e |-> "work", idx |-> idx, ok |-> TRUE,
                                     attempts |-> n]>>,
                                  last, "none")
                     /\ pc' = IF last THEN "idle" ELSE "002"
                     /\ run' = [run EXCEPT !.idx = idx]
                     /\ call' = NoCall
                ELSE IF n >= StopAfterAttempt
                THEN /\ fs' = fs
                     /\ hist' = Logged(hist,
                                  <<[e |-> "work", idx |-> idx, ok |-> FALSE,
                                     attempts |-> n]>>,
                                  TRUE, "RetryError")
                     /\ pc' = "idle"
                     /\ run' = [run EXCEPT !.idx = idx]
                     /\ call' = NoCall
                ELSE /\ call' = [fn |-> "summarize", attempt_number |-> n]
                     /\ UNCHANGED <<fs, hist, pc, run>>
    /\ UNCHANGED <<today, ret>>

\* The download stage has written the article records of the candidates;
\* nothing was summarized yet.
InitRetry ==
    /\ \E cands \in CandidateLists : fs = FsAfterDownload(cands)
    /\ today = FirstDay
    /\ pc = "idle"
    /\ run = NoRun
    /\ hist = NoHist
    /\ call = NoCall
    /\ ret = NoRet

NextRetry ==
    \/ script_002_as_written
    \/ script_002_windowed
    \/ summarize_articles_skip
    \/ summarize_attempt

SpecRetry == InitRetry /\ [][NextRetry]_vars

\* C34: a summarization is attempted at most six times per article and
\* stops at the first attempt that succeeds; when all six attempts fail
\* the error propagates to summarize_articles, and no record or cache
\* entry is written for that article.
C34_RetryBounded ==
    (hist.cur.stage = "002" /\ InStageLoop(hist.cur)) =>
        LET evs == hist.cur.events
        IN  /\ attempt_number \in 0..5
            /\ call # NoCall => pc = "002"
            /\ \A i \in WorkEvents(hist.cur) :
                /\ evs[i].attempts \in 1..6
                /\ \A j \in WorkEvents(hist.cur) :
                        evs[j].idx = evs[i].idx => j = i
                /\ ~evs[i].ok =>
                    /\ evs[i].attempts = 6
                    /\ i = Len(evs)
                    /\ hist.cur.exc = "RetryError"
                    /\ pc = "idle"
            /\ (hist.cur.exc # "none") =>
                    (evs # <<>> /\ ~evs[Len(evs)].ok)
            /\ Len(AppendedTo(hist.cur, SUMMARIES_DIR)) =
                    Cardinality(Succeeded(hist.cur))
            /\ Len(AppendedTo(hist.cur, DOWNLOADED_LINKS_DIR_002)) =
                    Cardinality(Succeeded(hist.cur))
            /\ \A i \in Failed(hist.cur) :
                \A k \in 1..Len(AppendedTo(hist.cur, DOWNLOADED_LINKS_DIR_002)) :
                    AppendedTo(hist.cur, DOWNLOADED_LINKS_DIR_002)[k] =
                        LinkLine(hist.cur.input[i].link) =>
                            \E j \in Succeeded(hist.cur) :
                                hist.cur.input[j].link = hist.cur.input[i].link

\* C34 witness: in one run the first article was summarized at its third
\* attempt and recorded, and the second article failed six times: the run
\* ended with RetryError and one record and one link were written.
C34_Witness ==
    /\ hist.cur.stage = "002"
    /\ hist.cur.done
    /\ hist.cur.exc = "RetryError"
    /\ hist.cur.events =
            <<[e |-> "work", idx |-> 1, ok |-> TRUE, attempts |-> 3],
              [e |-> "work", idx |-> 2, ok |-> FALSE, attempts |-> 6]>>
    /\ Len(AppendedTo(hist.cur, SUMMARIES_DIR)) = 1
    /\ Len(AppendedTo(hist.cur, DOWNLOADED_LINKS_DIR_002)) = 1

-----------------------------------------------------------------------------
(* SpecLive: the three stages with the attempts of summarize one by one,   *)
(* and the scheduling of a Python process: a script that has a next        *)
(* statement executes it, and a call to a collaborator (the search API,    *)
(* the download, the chat completion, the wait) returns or raises.  Each   *)
(* step of a loop is therefore taken when it stays enabled (weak           *)
(* fairness); starting a run is left to the operator and is not forced.    *)

\* A collect run's file systems, or the clean records of the candidates
\* with nothing downloaded yet, or with everything downloaded.
InitLive ==
    \/ InitCollect
    \/ /\ \E cands \in CandidateLists :
            fs \in {FsBeforeDownload(cands), FsAfterDownload(cands)}
       /\ today = FirstDay
       /\ pc = "idle"
       /\ run = NoRun
       /\ hist = NoHist
       /\ call = NoCall
       /\ ret = NoRet

NextLive ==
    \/ main_as_written
    \/ main_windowed
    \/ main_domain
    \/ script_001_as_written
    \/ script_001_windowed
    \/ process_articles_step
    \/ script_002_as_written
    \/ script_002_windowed
    \/ summarize_articles_skip
    \/ summarize_attempt

SpecLive ==
    /\ InitLive
    /\ [][NextLive]_vars
    /\ WF_vars(main_domain)
    /\ WF_vars(process_articles_step)
    /\ WF_vars(summarize_articles_skip)
    /\ WF_vars(summarize_attempt)

\* A stage run is inside its loop.
Running == pc # "idle"

\* The run has left its loop and its with block: the files are closed and
\* the script has returned or ended with an exception.
Completed ==
    /\ pc = "idle"
    /\ hist.cur.stage # "none"
    /\ (hist.cur.done \/ hist.cur.exc # "none")

\* No candidate (domain row, or article record) has been visited twice by
\* the run, and no call of summarize has made more attempts than allowed.
VisitedOnce ==
    /\ \A i, j \in 1..Len(hist.cur.events) :
        (/\ i # j
         /\ hist.cur.events[i].e \in {"work", "skip"}
         /\ hist.cur.events[j].e \in {"work", "skip"}) =>
            hist.cur.events[i].idx # hist.cur.events[j].idx
    /\ hist.cur.stage = "000" =>
        Len(FetchEvents(hist.cur.events)) <= Len(quality_domains_df)
    /\ attempt_number < 6

\* C37: every stage run terminates: for a finite candidate list and
\* collaborators that return or raise, the run visits each candidate at
\* most once, retries a summarization a bounded number of times, and
\* eventually reaches completion with its files closed.
C37_StageRunTerminates ==
    /\ [](hist.cur.stage # "none" => VisitedOnce)
    /\ Running ~> Completed

\* C37 witness: a summarize run over MaxCand candidates has completed after
\* the longest course it can take: every call of summarize succeeded at its
\* sixth attempt.
C37_Witness ==
    /\ Completed
    /\ hist.cur.stage = "002"
    /\ hist.cur.exc = "none"
    /\ Len(hist.cur.events) = MaxCand
    /\ \A i \in 1..Len(hist.cur.events) :
        /\ hist.cur.events[i].e = "work"
        /\ hist.cur.events[i].ok
        /\ hist.cur.events[i].attempts = 6

-----------------------------------------------------------------------------
(* SpecRace: two runs of the download script at the same time on the same  *)
(* directories.  Nothing in the script takes a lock: the steps of the two  *)
(* processes interleave freely.  pc, run and hist hold one value per       *)
(* process.                                                                *)

Procs == {1, 2}
Other(p) == 3 - p

article_fp_of(p) == PathJoin(ARTICLE_RECORDS_DIR, DatedName(run[p].today_str))
links_fp_of(p) == PathJoin(DOWNLOADED_LINKS_DIR_001, DatedName(run[p].today_str))

\* Mutant of Seen: the link files read again at every candidate.
Seen_fresh(p, link) ==
    link \in load_downloaded_links(fs,
                collect_last_x_files(fs, PyStr(DOWNLOADED_LINKS_DIR_001),
                    PyInt(NUM_DAYS_001), PyBool(FALSE)).val).v

\* 001 line 185: link in downloaded_links_set, the set the process built
\* when it started.
Seen(p, link) == link \in run[p].downloaded_links_set.v

\* Process p runs __main__ and process_articles up to the loop (as
\* script_001_enter); hist notes whether the other process had appended
\* anything by then.
concurrent_enter(p, record_files, files) ==
    /\ pc[p] = "idle"
    /\ LET died == Raised(record_files) \/ Raised(files)
           article_records ==
               IF Raised(record_files) THEN <<>>
               ELSE ExtendAll(fs, record_files.val)
           links_set ==
               IF died THEN PySet({}) ELSE load_downloaded_links(fs, files.val)
       IN  /\ pc' = [pc EXCEPT ![p] =
                        IF died \/ article_records = <<>> THEN "done" ELSE "001"]
           /\ run' = [run EXCEPT ![p] =
                        [stage |-> "001", today_str |-> today,
                         article_records |-> article_records,
                         downloaded_links_set |-> links_set, idx |-> 0]]
           /\ hist' = [hist EXCEPT ![p] =
                        [entered |-> ~died,
                         before_appends |-> hist[Other(p)].events = <<>>,
                         events |-> <<>>]]
           /\ fs' = IF died THEN fs
                    ELSE OpenAppend(
                            OpenAppend(fs,
                                PathJoin(ARTICLE_RECORDS_DIR, DatedName(today))),
                            PathJoin(DOWNLOADED_LINKS_DIR_001, DatedName(today)))
    /\ UNCHANGED <<today, call, ret>>

concurrent_as_written(p) ==
    concurrent_enter(p,
        CallCollectLastXFiles(fs,
            <<PyStr(SERP_CLEAN_DIR_001), PyInt(NUM_DAYS_001 - 1)>>, NoKw),
        CallCollectLastXFiles(fs,
            <<PyStr(DOWNLOADED_LINKS_DIR_001), PyInt(NUM_DAYS_001)>>, NoKw))

concurrent_windowed(p) ==
    concurrent_enter(p,
        collect_last_x_files(fs, PyStr(SERP_CLEAN_DIR_001),
                             PyInt(NUM_DAYS_001 - 1), PyBool(FALSE)),
        collect_last_x_files(fs, PyStr(DOWNLOADED_LINKS_DIR_001),
                             PyInt(NUM_DAYS_001), PyBool(FALSE)))

\* One iteration of the loop of process_articles by process p (as
\* process_articles_step).
concurrent_step(p) ==
    /\ pc[p] = "001"
    /\ LET idx == run[p].idx + 1
           article == run[p].article_records[idx]
           link == article.link
           last == idx = Len(run[p].article_records)
       IN  /\ IF Seen(p, link)
              THEN /\ fs' = fs
                   /\ hist' = hist
              ELSE \E text \in DownloadTexts(link) :
                   /\ fs' = AppendLine(
                                AppendLine(fs, article_fp_of(p),
                                    json_dumps(WithText(article, text))),
                                links_fp_of(p), LinkLine(link))
                   /\ hist' = [hist EXCEPT ![p].events =
                                Append(@, [e |-> "work", idx |-> idx,
                                           ok |-> (text # "")])]
           /\ run' = [run EXCEPT ![p].idx = idx]
           /\ pc' = [pc EXCEPT ![p] = IF last THEN "done" ELSE "001"]
    /\ UNCHANGED <<today, call, ret>>

InitRace ==
    /\ \E cands \in CandidateLists :
        fs \in {FsBeforeDownload(cands), FsAfterDownload(cands)}
    /\ today = FirstDay
    /\ pc = [p \in Procs |-> "idle"]
    /\ run = [p \in Procs |-> NoRun]
    /\ hist = [p \in Procs |->
                [entered |-> FALSE, before_appends |-> FALSE, events |-> <<>>]]
    /\ call = NoCall
    /\ ret = NoRet

NextRace ==
    \E p \in Procs :
        \/ concurrent_as_written(p)
        \/ concurrent_windowed(p)
        \/ concurrent_step(p)

SpecRace == InitRace /\ [][NextRace]_vars

-----------------------------------------------------------------------------
(* Claims about concurrent runs (SpecRace) *)

\* Both processes built their key cache before either had appended, and
\* both have left their loop.
RacedAndDone ==
    \A p \in Procs :
        /\ hist[p].entered
        /\ hist[p].before_appends
        /\ pc[p] = "done"

\* The number of lines of today's file of a directory that satisfy Test.
CountToday(dir, Test(_)) ==
    LET lines == LinesOf(fs[dir], DatedName(today))
    IN  Cardinality({i \in 1..Len(lines) : Test(lines[i])})

\* C20: there is no locking across runs: in every interleaving of two
\* concurrent download runs in which both build their key cache before
\* either has appended, both runs append a record and a cache entry for
\* every candidate key that is not in that cache, so each such key is
\* recorded and cached at least twice.
C20_BothRunsAppend ==
    RacedAndDone =>
        \A i \in 1..Len(run[1].article_records) :
            LET link == run[1].article_records[i].link
            IN  link \notin run[1].downloaded_links_set.v =>
                    /\ CountToday(ARTICLE_RECORDS_DIR,
                            LAMBDA line : line.obj.link = link) >= 2
                    /\ CountToday(DOWNLOADED_LINKS_DIR_001,
                            LAMBDA line : line = LinkLine(link)) >= 2

\* C20 witness: the only candidate is a, the caches were empty, and both
\* runs downloaded a: two records and two cache entries for a.
C20_Witness ==
    /\ RacedAndDone
    /\ Len(run[1].article_records) = 1
    /\ run[1].article_records[1].link = LinkA
    /\ run[1].downloaded_links_set = PySet({})
    /\ run[2].downloaded_links_set = PySet({})
    /\ Len(LinesOf(fs[ARTICLE_RECORDS_DIR], DatedName(today))) = 2
    /\ LinesOf(fs[DOWNLOADED_LINKS_DIR_001], DatedName(today)) =
            <<LinkLine(LinkA), LinkLine(LinkA)>>

-----------------------------------------------------------------------------
(* SpecStartup: the module-level statements of the collect script (000) and *)
(* of the summarize script (002), from the start of the interpreter to the  *)
(* `if __name__ == "__main__"` line.  Here fs holds the directories that    *)
(* exist, call the environment variables of the process, and hist the file  *)
(* system operations the script has performed.                              *)

\* Values of a credential variable: a key, and the empty string.
EnvValues == {"", "key"}
EnvNames == {"SERP_API_KEY", "OPENAI_OSOME_API_KEY"}

\* The directories the two scripts create at module level.
StartupDirs ==
    {SERP_RAW_DIR, SERP_CLEAN_DIR_000, SUMMARIES_DIR, DOWNLOADED_LINKS_DIR_002}

\* os.makedirs(d, exist_ok=True): creates the directory when it is absent.
makedirs(f, d) ==
    IF d \in DOMAIN f THEN f
    ELSE [x \in (DOMAIN f) \cup {d} |-> IF x = d THEN EmptyDir ELSE f[x]]

\* os.environ.get(name): None when the variable is not set.
environ_get(env, name) == IF name \in DOMAIN env THEN PyStr(env[name]) ELSE PyNone

\* os.environ[name]: KeyError when the variable is not set.
environ_item(env, name) ==
    IF name \in DOMAIN env THEN Return(PyStr(env[name])) ELSE Raise("KeyError")

\* `not x` for None and for a str.
NotTruthy(x) == x.t = "NoneType" \/ (x.t = "str" /\ x.v = "")

InitStartup ==
    /\ \E S \in SUBSET StartupDirs : fs = [d \in S |-> EmptyDir]
    /\ \E E \in SUBSET EnvNames : call \in [E -> EnvValues]
    /\ today = FirstDay
    /\ pc = "idle"
    /\ run = NoRun
    /\ hist = [io |-> <<>>, fs0 |-> <<>>]
    /\ ret = NoRet

\* python 000_collect_serp_results.py / python 002_summarize_article_data.py
launch ==
    /\ pc = "idle"
    /\ \E script \in {"000", "002"} :
        /\ pc' = IF script = "000" THEN "000:58" ELSE "002:42"
        /\ run' = [stage |-> script, exc |-> "none"]
    /\ hist' = [io |-> <<>>, fs0 |-> fs]
    /\ UNCHANGED <<fs, today, call, ret>>

\* 000, lines 56-59: the two output directories are created.
module_000_makedirs ==
    /\ pc = "000:58"
    /\ fs' = makedirs(makedirs(fs, SERP_RAW_DIR), SERP_CLEAN_DIR_000)
    /\ hist' = [hist EXCEPT !.io = @ \o
                    <<[op |-> "makedirs", dir |-> SERP_RAW_DIR],
                      [op |-> "makedirs", dir |-> SERP_CLEAN_DIR_000]>>]
    /\ pc' = "000:67"
    /\ UNCHANGED <<today, run, call, ret>>

\* 000, lines 67-69: the API key is read and tested.
module_000_api_key ==
    /\ pc = "000:67"
    /\ LET SERP_API_KEY == environ_get(call, "SERP_API_KEY")
       IN  IF NotTruthy(SERP_API_KEY)
           THEN /\ pc' = "exit"
                /\ run' = [run EXCEPT !.exc = "ValueError"]
           ELSE /\ pc' = "000:__main__"
                /\ run' = run
    /\ UNCHANGED <<fs, today, hist, call, ret>>

\* 002, lines 42-43: the API key is read and the client is built.
module_002_api_key ==
    /\ pc = "002:42"
    /\ LET api_key == environ_item(call, "OPENAI_OSOME_API_KEY")
       IN  IF Raised(api_key)
           THEN /\ pc' = "exit"
                /\ run' = [run EXCEPT !.exc = api_key.exc]
           ELSE /\ pc' = "002:71"
                /\ run' = run
    /\ UNCHANGED <<fs, today, hist, call, ret>>

\* 002, lines 69-72: the two output directories are created.
module_002_makedirs ==
    /\ pc = "002:71"
    /\ fs' = makedirs(makedirs(fs, SUMMARIES_DIR), DOWNLOADED_LINKS_DIR_002)
    /\ hist' = [hist EXCEPT !.io = @ \o
                    <<[op |-> "makedirs", dir |-> SUMMARIES_DIR],
                      [op |-> "makedirs", dir |-> DOWNLOADED_LINKS_DIR_002]>>]
    /\ pc' = "002:__main__"
    /\ UNCHANGED <<today, run, call, ret>>

NextStartup ==
    \/ launch
    \/ module_000_makedirs
    \/ module_000_api_key
    \/ module_002_api_key
    \/ module_002_makedirs

SpecStartup == InitStartup /\ [][NextStartup]_vars

-----------------------------------------------------------------------------
(* Claims about the start of the scripts (SpecStartup) *)

\* The credential variable of a script.
Credential(script) ==
    IF script = "000" THEN "SERP_API_KEY" ELSE "OPENAI_OSOME_API_KEY"

\* C22: configuration errors fail fast before any file I/O: when a required
\* credential environment variable is missing (SERP_API_KEY for the collect
\* script, OPENAI_OSOME_API_KEY for the summarize script), the script
\* terminates with an error before it has created, opened or listed any
\* directory or file.
C22_FailFastBeforeIO ==
    (pc # "idle" /\ Credential(run.stage) \notin DOMAIN call) =>
        /\ pc \notin {"000:__main__", "002:__main__"}
        /\ pc = "exit" =>
            /\ run.exc # "none"
            /\ hist.io = <<>>
            /\ fs = hist.fs0

-----------------------------------------------------------------------------
(* create_dbs/update_vdb.py: the index stage.  The Chroma collections are  *)
(* persistent: fs[CHROMA_DIR] maps the name of a collection to the         *)
(* sequence of its items (id, metadata, document).                         *)

CHROMA_DIR == "/home/data/apps/llm_facebook_browser_extension/vector_dbs"
SUMMARIES_DIR_vdb ==
    "/home/mdeverna/reliable_news_db/data/article_data/article_results_summarized"

\* A summary is the sequence of its sentences; sent_tokenize returns them.
OneSentence == <<"s1">>
TwoSentences == <<"s1", "s2">>
sent_tokenize(summary) == [i \in 1..Len(summary) |-> <<summary[i]>>]

\* The lines of a summary file: records with the columns the index stage
\* reads (domain, serp_date and title are carried along like publisher),
\* and a partial line.
VdbLines ==
    {json_dumps([link |-> LinkA, publisher |-> "p", article_summary |-> OneSentence]),
     json_dumps([link |-> LinkA, publisher |-> "p", article_summary |-> TwoSentences]),
     json_dumps([link |-> LinkB, publisher |-> "p", article_summary |-> OneSentence]),
     MalformedLine}

\* create_database_name(args, is_sentences), for --separators sentences.
create_database_name(args) ==
    IF args.summaries_split THEN <<"db", args.distance, "split", "sentences">>
    ELSE <<"db", args.distance, "nosplit">>

\* client.get_or_create_collection(name=db_name, ...)
get_or_create_collection(f, db_name) ==
    IF db_name \in DOMAIN f[CHROMA_DIR] THEN f
    ELSE [f EXCEPT ![CHROMA_DIR] =
            [n \in (DOMAIN f[CHROMA_DIR]) \cup {db_name} |->
                IF n = db_name THEN <<>> ELSE f[CHROMA_DIR][n]]]

\* load_records_as_df(files): json.loads of every line, outside any try.
load_records_as_df(f, files) == LoadsAll(ReadAll(f, files))

\* records_df.drop_duplicates(subset="link"): the first row of every link.
RECURSIVE drop_duplicates(_, _)
drop_duplicates(rows, seen) ==
    IF rows = <<>> THEN <<>>
    ELSE IF Head(rows).link \in seen THEN drop_duplicates(Tail(rows), seen)
    ELSE <<Head(rows)>> \o drop_duplicates(Tail(rows), seen \cup {Head(rows).link})

\* split_summaries_into_sentences(df): one row per sentence, the other
\* columns repeated.
RECURSIVE split_summaries_into_sentences(_)
split_summaries_into_sentences(rows) ==
    IF rows = <<>> THEN <<>>
    ELSE LET sentences == sent_tokenize(Head(rows).article_summary)
         IN  [i \in 1..Len(sentences) |->
                [Head(rows) EXCEPT !.article_summary = sentences[i]]]
             \o split_summaries_into_sentences(Tail(rows))

\* set(item["link"] for item in collection.get(include=["metadatas"])["metadatas"])
links_in_collection(collection) ==
    {collection[i].metadata.link : i \in 1..Len(collection)}

\* collection.add(ids=..., metadatas=..., documents=...) of chromadb: it
\* raises ValueError for an empty list of ids and for lists of unequal
\* length, and appends one item per id otherwise.
collection_add(collection, ids, metadatas, documents) ==
    IF ids = <<>> \/ Len(ids) # Len(metadatas) \/ Len(ids) # Len(documents)
    THEN Raise("ValueError")
    ELSE Return(collection \o
                [i \in 1..Len(ids) |->
                    [id |-> ids[i], metadata |-> metadatas[i],
                     document |-> documents[i]]])

\* The arguments add_records_to_collection(df, collection) hands to
\* collection.add: ids for range(num_items + 1, len(df) + 1), and the
\* metadata and the document of every row of df.
add_arguments(df, collection) ==
    LET num_items == Len(collection)
    IN  [ids |-> [i \in 1..(IF Len(df) > num_items THEN Len(df) - num_items ELSE 0)
                    |-> num_items + i],
         metadatas |-> [i \in 1..Len(df) |->
                            [link |-> df[i].link, publisher |-> df[i].publisher]],
         documents |-> [i \in 1..Len(df) |-> df[i].article_summary]]

NoAdd == [ids |-> <<>>, metadatas |-> <<>>, documents |-> <<>>]

\* __main__, lines 255-323, for the flags in args, where `files` is the
\* outcome of the call of collect_last_x_files at line 288: the file system
\* the run leaves and what it did.
update_vdb_run(f, args, files) ==
    LET db_name == create_database_name(args)
        created == get_or_create_collection(f, db_name)
        collection == created[CHROMA_DIR][db_name]
        loaded == IF Raised(files) THEN files
                  ELSE load_records_as_df(f, files.val)
        died(exc) == [fs |-> created, exc |-> exc, add_called |-> FALSE,
                      add |-> NoAdd, links_already_present |-> {}]
    IN  IF Raised(loaded) THEN died(loaded.exc)
        \* line 290: an empty frame has no column `publisher`
        ELSE IF loaded.val = <<>> THEN died("AttributeError")
        ELSE LET records_df == drop_duplicates(loaded.val, {})
                 df == IF args.summaries_split
                       THEN split_summaries_into_sentences(records_df)
                       ELSE records_df
                 a == add_arguments(df, collection)
                 added == collection_add(collection, a.ids, a.metadatas,
                                         a.documents)
             IN  [fs |-> IF Raised(added) THEN created
                         ELSE [created EXCEPT ![CHROMA_DIR][db_name] = added.val],
                  exc |-> added.exc,
                  add_called |-> TRUE,
                  add |-> a,
                  links_already_present |-> links_in_collection(collection)]

\* One run of the script.
update_vdb_enter(form, files) ==
    /\ pc = "idle"
    /\ hist.runs < MaxRuns
    /\ \E split \in BOOLEAN :
        LET args == [distance |-> "cosine", summaries_split |-> split]
            r == update_vdb_run(fs, args, files)
        IN  /\ fs' = r.fs
            /\ run' = [stage |-> "vdb", args |-> args, exc |-> r.exc]
            /\ hist' = Started(hist,
                        [stage |-> "vdb", form |-> form, args |-> args,
                         fs0 |-> fs, files |-> files, exc |-> r.exc,
                         add_called |-> r.add_called, add |-> r.add,
                         links_already_present |-> r.links_already_present])
    /\ UNCHANGED <<today, pc, call, ret>>

\* The script with line 288 as it is written:
\* collect_last_x_files(SUMMARIES_DIR).
update_vdb_as_written ==
    update_vdb_enter("as_written",
        CallCollectLastXFiles(fs, <<PyStr(SUMMARIES_DIR_vdb)>>, NoKw))

\* The script with all=True passed at line 288: the form of the call that
\* returns every file.
update_vdb_all ==
    update_vdb_enter("all",
        collect_last_x_files(fs, PyStr(SUMMARIES_DIR_vdb), PyNone, PyBool(TRUE)))

InitIndex ==
    /\ \E d \in DirsOver({DatedName(1), DatedName(2)},
                         SeqsUpTo(VdbLines, MaxFnLines), 2) :
        fs = [x \in {SUMMARIES_DIR_vdb, CHROMA_DIR} |->
                IF x = SUMMARIES_DIR_vdb THEN d ELSE EmptyDir]
    /\ today = FirstDay
    /\ pc = "idle"
    /\ run = NoRun
    /\ hist = NoHist
    /\ call = NoCall
    /\ ret = NoRet

NextIndex == update_vdb_as_written \/ update_vdb_all

SpecIndex == InitIndex /\ [][NextIndex]_vars

-----------------------------------------------------------------------------
(* Claims about the index stage (SpecIndex) *)

\* C25: collect_last_x_files called with only a path (neither `all` nor
\* `num_paths` given) behaves as all=True by default and returns the paths
\* of all files of the directory; this is how the index stage loads all
\* summary files.
C25_PathOnlyReturnsAll ==
    (hist.cur.stage = "vdb" /\ hist.cur.form = "as_written") =>
        /\ ~Raised(hist.cur.files)
        /\ Range(hist.cur.files.val) =
                {PathJoin(SUMMARIES_DIR_vdb, n) :
                    n \in DOMAIN hist.cur.fs0[SUMMARIES_DIR_vdb]}

\* The collection of a run, in a file system.
CollectionOf(rec, f) ==
    LET db_name == create_database_name(rec.args)
    IN  IF db_name \in DOMAIN f[CHROMA_DIR] THEN f[CHROMA_DIR][db_name] ELSE <<>>

\* C26: the index stage does not create duplicates: summaries whose link is
\* already present in the collection's metadata are excluded before adding
\* (no row handed to collection.add carries a link that is already
\* present), so running the index stage twice over the same summary files
\* adds no document in the second run.
C26_PresentLinksExcluded ==
    hist.cur.stage = "vdb" =>
        /\ hist.cur.add_called =>
            \A i \in 1..Len(hist.cur.add.metadatas) :
                hist.cur.add.metadatas[i].link \notin hist.cur.links_already_present
        /\ (/\ hist.prev.stage = "vdb"
            /\ hist.prev.args = hist.cur.args
            /\ hist.prev.exc = "none") =>
                CollectionOf(hist.cur, fs) = CollectionOf(hist.cur, hist.cur.fs0)

\* The ids of the items of a collection.
IdsOf(collection) == {collection[i].id : i \in 1..Len(collection)}

\* C36: in the index stage, add_records_to_collection hands the collection
\* as many ids as documents and metadata entries, the ids are pairwise
\* distinct, and none of them equals an id already present in the
\* collection, for every number of documents already in the collection and
\* every number of rows to add.
C36_IdsMatchDocuments ==
    (hist.cur.stage = "vdb" /\ hist.cur.add_called) =>
        LET a == hist.cur.add
        IN  /\ Len(a.ids) = Len(a.documents)
            /\ Len(a.ids) = Len(a.metadatas)
            /\ \A i, j \in 1..Len(a.ids) : i # j => a.ids[i] # a.ids[j]
            /\ \A i \in 1..Len(a.ids) :
                a.ids[i] \notin IdsOf(CollectionOf(hist.cur, hist.cur.fs0))

-----------------------------------------------------------------------------
(* SpecAppend: one download run appending to today's article file while    *)
(* another process reads the file.  Here a file is the sequence of its     *)
(* characters.  The run writes through the file object of                  *)
(* open(article_fp, "a"): write() puts the characters of a line into the   *)
(* object's buffer, nothing in the script flushes after a record, and the  *)
(* buffered characters reach the file in blocks whose ends are set by the  *)
(* buffer size and by the operating system's write, not by the line ends.  *)
(* How much of the buffer a reader can see at a time is therefore a        *)
(* nondeterministic choice.                                                *)

\* The characters of f"{json.dumps(article)}\n" for a record with a link.
RecordChars(link) == <<"{">> \o str(link) \o <<"}", NL>>

\* The lines a reader gets from `for line in f`: the characters up to and
\* with each NL, and what is left behind the last NL, if anything.
RECURSIVE SplitLines(_, _)
SplitLines(chars, cur) ==
    IF chars = <<>> THEN (IF cur = <<>> THEN <<>> ELSE <<cur>>)
    ELSE IF Head(chars) = NL
         THEN <<Append(cur, NL)>> \o SplitLines(Tail(chars), <<>>)
    ELSE SplitLines(Tail(chars), Append(cur, Head(chars)))

\* The article file of the run.
AppendFile == fs[ARTICLE_RECORDS_DIR][DatedName(today)]

InitAppend ==
    /\ \E old \in {<<>>, RecordChars(LinkA)} :
        fs = [EmptyFs EXCEPT ![ARTICLE_RECORDS_DIR] =
                [n \in {DatedName(FirstDay)} |-> old]]
    /\ today = FirstDay
    /\ pc = "idle"
    /\ run = NoRun
    /\ hist = NoHist
    /\ call = NoCall
    /\ ret = NoRet

\* 001 line 173: with open(article_fp, "a") as f_art.
append_open ==
    /\ pc = "idle"
    /\ pc' = "open"
    /\ run' = [stage |-> "001", buffer |-> <<>>, written |-> 0]
    /\ UNCHANGED <<fs, today, hist, call, ret>>

\* 001 lines 193-194: f_art.write(json_line) for the next candidate.
append_write ==
    /\ pc = "open"
    /\ run.written < MaxCand
    /\ \E link \in {LinkA, LinkB} :
        run' = [run EXCEPT !.buffer = @ \o RecordChars(link),
                           !.written = @ + 1]
    /\ UNCHANGED <<fs, today, pc, hist, call, ret>>

\* The file object and the operating system move the first k buffered
\* characters into the file.
append_write_through ==
    /\ pc \in {"open", "closing"}
    /\ run.buffer # <<>>
    /\ \E k \in 1..Len(run.buffer) :
        /\ fs' = [fs EXCEPT ![ARTICLE_RECORDS_DIR][DatedName(today)] =
                    @ \o SubSeq(run.buffer, 1, k)]
        /\ run' = [run EXCEPT !.buffer = SubSeq(@, k + 1, Len(@))]
        /\ pc' = IF pc = "closing" /\ k = Len(run.buffer) THEN "done" ELSE pc
    /\ UNCHANGED <<today, hist, call, ret>>

\* The end of the with block: the file is closed, which flushes what is
\* left in the buffer.
append_close ==
    /\ pc = "open"
    /\ pc' = IF run.buffer = <<>> THEN "done" ELSE "closing"
    /\ UNCHANGED <<fs, today, run, hist, call, ret>>

\* Another process reads the lines of the file.
reader_reads ==
    /\ call' = [fn |-> "read", during |-> pc]
    /\ ret' = Return(PyList(SplitLines(AppendFile, <<>>)))
    /\ UNCHANGED <<fs, today, pc, run, hist>>

NextAppend ==
    \/ append_open
    \/ append_write
    \/ append_write_through
    \/ append_close
    \/ reader_reads

SpecAppend == InitAppend /\ [][NextAppend]_vars

====
